---------------------------- MODULE Spec2Model ----------------------------
(***************************************************************************)
(* Settings persistence engine of the browser start page (src/script.js,   *)
(* first copy of the classes, lines 22-1458, and the storage actions of    *)
(* NavigationApp, lines 3179-3300).                                        *)
(*                                                                         *)
(* JavaScript values are sequences of integers <<tag, payload...>> so that *)
(* any two values can be compared.  Strings carry their character codes,   *)
(* which are the codes the checksum hashes.  Object keys are shortened to  *)
(* one character and the ten default shortcuts to the first two.           *)
(***************************************************************************)
EXTENDS Integers, Sequences, FiniteSets, TLC

-----------------------------------------------------------------------------
(* Bounds of the model *)

MaxTime == 3
MaxItems == 3
MaxPending == 2
MaxDepth == 3
MaxCalls == 3
MaxOps == 2

-----------------------------------------------------------------------------
(* JavaScript values *)

T_NUM == 0
T_STR == 1
T_UNDEF == 2
T_NULL == 3
T_NAN == 4
T_ABSENT == 5

Num(k) == <<T_NUM, k>>
Str(s) == <<T_STR>> \o s
Undef == <<T_UNDEF>>
Null == <<T_NULL>>
NaN == <<T_NAN>>
Absent == <<T_ABSENT>>

IsNumber(v) == v[1] = T_NUM \/ v[1] = T_NAN
IsString(v) == v[1] = T_STR
CharsOf(v) == Tail(v)

\* !v
Falsy(v) ==
    \/ v[1] = T_UNDEF
    \/ v[1] = T_NULL
    \/ v[1] = T_NAN
    \/ v[1] = T_ABSENT
    \/ v[1] = T_NUM /\ v[2] = 0
    \/ v[1] = T_STR /\ Len(v) = 1

\* a === b
StrictEq(a, b) == a = b /\ a[1] # T_NAN

\* the strings of the model, as character codes
S_empty == Str(<< >>)
S_version == Str(<<49, 46, 48>>)
S_G == Str(<<71>>)
S_H == Str(<<72>>)
S_Aa == Str(<<65, 97>>)
S_BB == Str(<<66, 66>>)
S_urlG == Str(<<104, 58, 103>>)
S_urlH == Str(<<104, 58, 104>>)
S_urlA == Str(<<104, 58, 97>>)
S_noScheme == Str(<<97, 46, 99>>)
S_icon == Str(<<42>>)
S_google == Str(<<103>>)
S_bing == Str(<<98>>)
S_color == Str(<<35, 50>>)
S_red == Str(<<35, 102>>)
S_img == Str(<<100, 58, 119>>)

\* a..z and A..Z
IsLetter(c) == (c >= 97 /\ c <= 122) \/ (c >= 65 /\ c <= 90)

\* new URL(s) does not throw: s starts with a scheme (a letter, then
\* letters) followed by ':'; the model's schemes are not the special ones
ParsesAsURL(s) ==
    \E i \in 2..Len(s) :
        /\ s[i] = 58
        /\ \A j \in 1..(i - 1) : IsLetter(s[j])

-----------------------------------------------------------------------------
(* Documents *)

K_OK == "ok"
K_UNDEF == "undef"
K_OTHER == "other"

Item(id, name, url, icon, tg) ==
    [id |-> id, name |-> name, url |-> url, icon |-> icon, toolGroupId |-> tg]

Layout(k, c, s, z) == [k |-> k, columns |-> c, spacing |-> s, iconSize |-> z]
Search(k, e, o) == [k |-> k, engine |-> e, opacity |-> o]
Arr(k, v) == [k |-> k, v |-> v]

DefaultLayout == Layout(K_OK, Num(8), Num(10), Num(48))
DefaultSearch == Search(K_OK, S_google, Num(2))
DefaultItems ==
    << Item(Num(1), S_G, S_urlG, S_icon, Undef),
       Item(Num(2), S_H, S_urlH, S_icon, Undef) >>

\* this.defaultSettings as the constructor writes it at time t
defaultSettings(t) ==
    [ k |-> K_OK,
      id |-> Undef,
      version |-> S_version,
      timestamp |-> Num(t),
      checksum |-> S_empty,
      wallpaper |-> S_empty,
      navigationItems |-> Arr(K_OK, DefaultItems),
      toolGroups |-> Arr(K_OK, << >>),
      layout |-> DefaultLayout,
      search |-> DefaultSearch,
      textColor |-> S_color ]

\* what a file or a storage entry holds: nothing, text that does not
\* parse, or the text of a document
NoStore == [k |-> "none", d |-> defaultSettings(0)]
Garbage == [k |-> "bad", d |-> defaultSettings(0)]
Stored(d) == [k |-> "json", d |-> d]

-----------------------------------------------------------------------------
(* JSON.stringify / JSON.parse *)

\* F(v), with v evaluated once
Bind(v, F(_)) == CHOOSE r \in {F(x) : x \in {v}} : TRUE

RECURSIVE Digits(_)
Digits(k) == IF k < 10 THEN <<48 + k>> ELSE Digits(k \div 10) \o <<48 + (k % 10)>>

C_null == <<110, 117, 108, 108>>

\* the text of a value that is not undefined
SerVal(v) ==
    CASE v[1] = T_NUM -> IF v[2] < 0 THEN <<45>> \o Digits(0 - v[2]) ELSE Digits(v[2])
      [] v[1] = T_STR -> <<34>> \o CharsOf(v) \o <<34>>
      [] OTHER -> C_null

Dropped(v) == v[1] = T_UNDEF \/ v[1] = T_ABSENT

\* one "key":value member, nothing for an undefined value
Member(key, v) == IF Dropped(v) THEN << >> ELSE <<<<key, 58>> \o SerVal(v)>>

RECURSIVE JoinWith(_, _)
JoinWith(parts, sep) ==
    IF Len(parts) = 0 THEN << >>
    ELSE IF Len(parts) = 1 THEN parts[1]
    ELSE parts[1] \o <<sep>> \o JoinWith(Tail(parts), sep)

Obj(members) == <<123>> \o JoinWith(members, 44) \o <<125>>
List(elems) == <<91>> \o JoinWith(elems, 44) \o <<93>>

SerItem(it) ==
    Obj(Member(105, it.id) \o Member(97, it.name) \o Member(117, it.url)
        \o Member(111, it.icon) \o Member(112, it.toolGroupId))

SerItems(items) == List([i \in 1..Len(items) |-> SerItem(items[i])])

SerGroup(g) ==
    Obj(Member(105, g.id) \o Member(97, g.name) \o <<<<120, 58>> \o SerItems(g.items)>>)

SerGroups(gs) == List([i \in 1..Len(gs) |-> SerGroup(gs[i])])

\* an array-valued member: the array, a stand-in object, or nothing
ArrMember(key, a, ser(_)) ==
    CASE a.k = K_OK -> <<<<key, 58>> \o ser(a.v)>>
      [] a.k = K_OTHER -> <<<<key, 58, 123, 125>>>>
      [] OTHER -> << >>

SerLayout(l) ==
    CASE l.k = K_OK ->
            <<<<108, 58>> \o Obj(Member(107, l.columns) \o Member(113, l.spacing)
                                 \o Member(122, l.iconSize))>>
      [] l.k = K_OTHER -> <<<<108, 58, 49>>>>
      [] OTHER -> << >>

SerSearch(s) ==
    CASE s.k = K_OK ->
            <<<<115, 58>> \o Obj(Member(101, s.engine) \o Member(121, s.opacity))>>
      [] s.k = K_OTHER -> <<<<115, 58, 49>>>>
      [] OTHER -> << >>

\* JSON.stringify(data) once the checksum key is taken out
StringifyWithoutChecksum(d) ==
    Obj(Member(105, d.id) \o Member(118, d.version) \o Member(116, d.timestamp)
        \o Member(119, d.wallpaper)
        \o ArrMember(110, d.navigationItems, SerItems)
        \o ArrMember(103, d.toolGroups, SerGroups)
        \o SerLayout(d.layout) \o SerSearch(d.search)
        \o Member(99, d.textColor))

\* what JSON.parse(JSON.stringify(v)) makes of a value
ParsedVal(v) ==
    CASE v[1] = T_NAN -> Null
      [] v[1] = T_ABSENT -> Undef
      [] OTHER -> v

ParsedItem(it) ==
    Item(ParsedVal(it.id), ParsedVal(it.name), ParsedVal(it.url),
         ParsedVal(it.icon), ParsedVal(it.toolGroupId))

ParsedItems(items) == [i \in 1..Len(items) |-> ParsedItem(items[i])]

ParsedGroup(g) ==
    [id |-> ParsedVal(g.id), name |-> ParsedVal(g.name), items |-> ParsedItems(g.items)]

\* JSON.parse(JSON.stringify(d, null, 2))
JsonRoundTrip(d) ==
    [ k |-> d.k,
      id |-> ParsedVal(d.id),
      version |-> ParsedVal(d.version),
      timestamp |-> ParsedVal(d.timestamp),
      checksum |-> ParsedVal(d.checksum),
      wallpaper |-> ParsedVal(d.wallpaper),
      navigationItems |->
          IF d.navigationItems.k = K_OK
          THEN Arr(K_OK, ParsedItems(d.navigationItems.v)) ELSE d.navigationItems,
      toolGroups |->
          IF d.toolGroups.k = K_OK
          THEN Arr(K_OK, [i \in 1..Len(d.toolGroups.v) |-> ParsedGroup(d.toolGroups.v[i])])
          ELSE d.toolGroups,
      layout |->
          IF d.layout.k = K_OK
          THEN Layout(K_OK, ParsedVal(d.layout.columns), ParsedVal(d.layout.spacing),
                      ParsedVal(d.layout.iconSize))
          ELSE d.layout,
      search |->
          IF d.search.k = K_OK
          THEN Search(K_OK, ParsedVal(d.search.engine), ParsedVal(d.search.opacity))
          ELSE d.search,
      textColor |-> ParsedVal(d.textColor) ]

-----------------------------------------------------------------------------
(* Checksum engine *)

Two16 == 65536

\* hash = ((hash << 5) - hash) + char; hash = hash & hash, on the two
\* 16-bit halves <<high, low>> of the 32-bit word
HashStep(h, c) ==
    LET lo == h[2] * 31 + c
        hi == h[1] * 31 + (lo \div Two16)
    IN  <<hi % Two16, lo % Two16>>

\* the loop over dataStr[lo..hi] started with hash h: the steps run in
\* index order, the left half before the right half
RECURSIVE HashRange(_, _, _, _)
HashRange(h, s, lo, hi) ==
    IF lo > hi THEN h
    ELSE IF lo = hi THEN HashStep(h, s[lo])
    ELSE CHOOSE r \in UNION {{HashRange(hl, s, mid + 1, hi) :
                                  hl \in {HashRange(h, s, lo, mid)}} :
                              mid \in {(lo + hi) \div 2}} : TRUE

\* hash.toString(16): one string per 32-bit value, never the empty string
generateChecksum(d) ==
    Bind(StringifyWithoutChecksum(d),
         LAMBDA dataStr : Str(HashRange(<<0, 0>>, dataStr, 1, Len(dataStr))))

verifyChecksum(d) ==
    IF Falsy(d.checksum) THEN FALSE ELSE d.checksum = generateChecksum(d)

-----------------------------------------------------------------------------
(* Validator *)

validateItem(item) ==
    /\ ~Falsy(item.name) /\ IsString(item.name)
    /\ ~Falsy(item.url) /\ IsString(item.url)
    /\ ParsesAsURL(CharsOf(item.url))
    /\ (Dropped(item.id) \/ IsNumber(item.id))
    /\ (Dropped(item.icon) \/ IsString(item.icon))
    /\ (Dropped(item.toolGroupId) \/ IsNumber(item.toolGroupId)
            \/ item.toolGroupId = Null)

UniqueIds_anyIds(items) == TRUE

\* ids.length === new Set(ids).size over the ids that are not undefined
UniqueIds(items) ==
    \A i, j \in 1..Len(items) :
        (i # j /\ ~Dropped(items[i].id)) => items[i].id # items[j].id

validateNavigationItems(a) ==
    /\ a.k = K_OK
    /\ \A i \in 1..Len(a.v) : validateItem(a.v[i])
    /\ UniqueIds(a.v)

validateSettings(d) ==
    /\ d.k = K_OK
    /\ validateNavigationItems(d.navigationItems)
    /\ d.layout.k = K_OK
    /\ d.search.k = K_OK
    /\ d.toolGroups.k # K_OTHER

-----------------------------------------------------------------------------
(* The model object: its fields and what shares an object with the defaults *)

NoAlias ==
    [doc |-> FALSE, navigationItems |-> FALSE, toolGroups |-> FALSE,
     layout |-> FALSE, search |-> FALSE]
DocAlias == [NoAlias EXCEPT !.doc = TRUE]
SpreadAlias ==
    [doc |-> FALSE, navigationItems |-> TRUE, toolGroups |-> TRUE,
     layout |-> TRUE, search |-> TRUE]

Nested == {"navigationItems", "toolGroups", "layout", "search"}

\* this.currentSettings.f = v, v an object of its own
AssignField(m, f, v) ==
    [m EXCEPT !.cur[f] = v,
              !.def[f] = IF m.alias.doc THEN v ELSE @,
              !.alias = IF f \in Nested /\ ~m.alias.doc THEN [@ EXCEPT ![f] = FALSE] ELSE @]

\* a write inside the object this.currentSettings.f, which becomes v
MutateNested(m, f, v) ==
    [m EXCEPT !.cur[f] = v,
              !.def[f] = IF m.alias.doc \/ m.alias[f] THEN v ELSE @]

\* this.currentSettings = d, d a freshly parsed object
AssignDoc(m, d) == [m EXCEPT !.cur = d, !.alias = NoAlias]

\* this.currentSettings = this.defaultSettings
AssignDefaults(m) == [m EXCEPT !.cur = m.def, !.alias = DocAlias]

Logged(m, e) == [m EXCEPT !.log = Append(@, e)]
Ret(m, r) == [m EXCEPT !.ret = r]
Throw(m) == [m EXCEPT !.exc = TRUE]
Caught(m) == [m EXCEPT !.exc = FALSE]

\* localStorage.setItem(this.storageKey, JSON.stringify(this.currentSettings))
\* throws when the storage takes no more
setItem(m) ==
    IF m.quota THEN Throw(Logged(m, "QuotaExceededError"))
    ELSE Logged([m EXCEPT !.ls = [k |-> "json", d |-> JsonRoundTrip(m.cur)]], "setItem")

\* timestamp = Date.now(); checksum = generateChecksum(currentSettings)
Stamp(m) ==
    Bind(AssignField(m, "timestamp", Num(m.now)),
         LAMBDA m1 : Bind(generateChecksum(m1.cur),
                          LAMBDA c : AssignField(m1, "checksum", c)))

\* localStorage.getItem / JSON.parse / validateSettings of loadSettings:
\* TRUE when the stored document is returned, FALSE for the defaults
LoadsStored(m) == m.ls.k = "json" /\ validateSettings(m.ls.d)

\* this.currentSettings = this.loadSettings()
loadSettings(m) == IF LoadsStored(m) THEN AssignDoc(m, m.ls.d) ELSE AssignDefaults(m)

\* an asynchronous operation suspends at an await: the first frame of the
\* stack names the await, the frames after it what waits for the result
SpawnWith(m, stack, buf) ==
    [m EXCEPT !.pending = Append(@, [stack |-> stack, buf |-> buf])]
Spawn(m, stack) == SpawnWith(m, stack, NoStore)

-----------------------------------------------------------------------------
(* Repairer and the synchronous save path *)

\* `if (typeof layout.f !== 'number') layout.f = defaultSettings.layout.f`;
\* p is <<model, isModified>>
LayoutField(p, f) ==
    IF IsNumber(p[1].cur.layout[f]) THEN p
    ELSE <<MutateNested(p[1], "layout",
               [p[1].cur.layout EXCEPT ![f] = p[1].def.layout[f]]), TRUE>>

\* the same for a field of search, ok(_) being the typeof test
SearchField(p, f, ok(_)) ==
    IF ok(p[1].cur.search[f]) THEN p
    ELSE <<MutateNested(p[1], "search",
               [p[1].cur.search EXCEPT ![f] = p[1].def.search[f]]), TRUE>>

\* one test of ensureSettingsStructure and its assignment, in source
\* order: p is <<model, isModified>>
Check(p, i) ==
    LET x == p[1]
        fix(c, y) == IF c THEN <<y, TRUE>> ELSE p
    IN  CASE i = 1 ->
              fix(x.cur.k # K_OK, [x EXCEPT !.cur = x.def, !.alias = SpreadAlias])
          [] i = 2 ->
              fix(Falsy(x.cur.version) \/ ~IsString(x.cur.version),
                  AssignField(x, "version", x.def.version))
          [] i = 3 ->
              fix(Falsy(x.cur.timestamp) \/ ~IsNumber(x.cur.timestamp),
                  AssignField(x, "timestamp", Num(x.now)))
          [] i = 4 ->
              fix(Falsy(x.cur.checksum) \/ ~IsString(x.cur.checksum),
                  Bind(generateChecksum(x.cur),
                       LAMBDA c : AssignField(x, "checksum", c)))
          [] i = 5 ->
              fix(x.cur.navigationItems.k # K_OK,
                  AssignField(x, "navigationItems", Arr(K_OK, << >>)))
          [] i = 6 ->
              fix(x.cur.toolGroups.k # K_OK,
                  AssignField(x, "toolGroups", Arr(K_OK, << >>)))
          [] i = 7 ->
              \* the else branch runs only on the layout found
              IF x.cur.layout.k # K_OK
              THEN <<AssignField(x, "layout", x.def.layout), TRUE>>
              ELSE Bind(LayoutField(p, "columns"),
                        LAMBDA q : Bind(LayoutField(q, "spacing"),
                                        LAMBDA q2 : LayoutField(q2, "iconSize")))
          [] i = 8 ->
              IF x.cur.search.k # K_OK
              THEN <<AssignField(x, "search", x.def.search), TRUE>>
              ELSE Bind(SearchField(p, "engine", IsString),
                        LAMBDA q : SearchField(q, "opacity", IsNumber))
          [] OTHER ->
              fix(Falsy(x.cur.textColor) \/ ~IsString(x.cur.textColor),
                  AssignField(x, "textColor", x.def.textColor))

Checks == 9

RECURSIVE ChecksFrom(_, _)
ChecksFrom(p, i) ==
    IF i > Checks THEN p
    ELSE Bind(Check(p, i), LAMBDA q : ChecksFrom(q, i + 1))

\* the checks of ensureSettingsStructure up to the final save:
\* <<model, isModified>>
EnsureFields(m) == Bind(<<m, FALSE>>, LAMBDA p : ChecksFrom(p, 1))

RECURSIVE saveSettings(_, _)
RECURSIVE ensureSettingsStructure(_, _)
RECURSIVE StartSaveStorage(_, _, _)
RECURSIVE StartSaveToFile(_, _)
RECURSIVE Resume(_, _, _)

\* ensureSettingsStructure() with the test of isModified left out
ensureSettingsStructure_alwaysSaves(m, depth) ==
    Bind(EnsureFields(m), LAMBDA p : saveSettings(p[1], depth + 1))

\* ensureSettingsStructure(), at call depth `depth`
ensureSettingsStructure(m, depth) ==
    Bind(EnsureFields(m),
         LAMBDA p : IF p[2] THEN saveSettings(p[1], depth + 1) ELSE p[1])

\* the catch of saveSettings(): the write once more, alone
Fallback(m) ==
    Bind(setItem(Caught(m)),
         LAMBDA m2 : IF m2.exc THEN Ret(Caught(m2), FALSE) ELSE Ret(m2, TRUE))

\* the end of saveSettings() with the adapter's save started before the
\* write to localStorage
AfterRepair_adapterFirst(m1, depth) ==
    IF m1.exc THEN Fallback(m1)
    ELSE IF m1.enabled /\ m1.adapter # "none"
    THEN Bind(StartSaveStorage(Logged(m1, "saveStorage"), <<"saveSettings.then">>,
                               depth + 1),
              LAMBDA m2 : Bind(setItem(m2),
                               LAMBDA m3 : IF m3.exc THEN Fallback(m3) ELSE Ret(m3, TRUE)))
    ELSE Bind(setItem(m1), LAMBDA m3 : IF m3.exc THEN Fallback(m3) ELSE Ret(m3, TRUE))

\* the end of saveSettings(), m1 being the model ensureSettingsStructure
\* left: the write to localStorage, then the start of the adapter's save
AfterRepair(m1, depth) ==
    IF m1.exc THEN Fallback(m1)
    ELSE Bind(setItem(m1),
              LAMBDA m2 :
                  IF m2.exc THEN Fallback(m2)
                  ELSE IF m2.enabled /\ m2.adapter # "none"
                  THEN Ret(StartSaveStorage(Logged(m2, "saveStorage"),
                                            <<"saveSettings.then">>, depth + 1), TRUE)
                  ELSE Ret(m2, TRUE))

\* saveSettings() without its validation
saveSettings_withoutValidation(m0, depth) ==
    Bind(m0,
         LAMBDA m :
             IF depth > MaxDepth THEN Throw(m)
             ELSE Bind(ensureSettingsStructure(Stamp(Logged(m, "save")), depth + 1),
                       LAMBDA m1 : AfterRepair(m1, depth)))

\* saveSettings(): validates, stamps, repairs, writes localStorage, then
\* starts the adapter's save; a call beyond the stack limit throws
saveSettings(m0, depth) ==
    Bind(m0,
         LAMBDA m :
             IF depth > MaxDepth THEN Throw(m)
             ELSE IF ~validateSettings(m.cur) THEN Ret(Logged(m, "invalid"), FALSE)
             ELSE Bind(ensureSettingsStructure(Stamp(Logged(m, "save")), depth + 1),
                       LAMBDA m1 : AfterRepair(m1, depth)))

\* <a download>: the browser receives the serialized document
Download(m) == [m EXCEPT !.download = Stored(JsonRoundTrip(m.cur))]

\* an awaited saveSettings() of an adapter returned m1
Returned(m1, k) ==
    IF m1.exc THEN Resume(Caught(m1), k, FALSE) ELSE Resume(m1, k, m1.ret)

\* FirefoxStorageAdapter.saveStorage()
ffSave(m, depth) ==
    Bind(IF ~m.domOk THEN saveSettings(m, depth + 1)
         ELSE Bind(saveSettings(Download(Stamp(m)), depth + 1),
                   LAMBDA m2 : IF m2.exc THEN m2 ELSE Ret(m2, TRUE)),
         LAMBDA m1 : IF m1.exc THEN saveSettings(Caught(m1), depth + 1) ELSE m1)

\* storageAdapter.saveStorage() up to its first await; k is what waits for
\* its result
StartSaveStorage(m0, k, depth) ==
    Bind(m0,
         LAMBDA m :
             CASE m.adapter = "fs" -> StartSaveToFile(m, <<"saveStorage">> \o k)
               [] m.adapter = "idb" ->
                     Spawn(Stamp(m), <<"idbSave:put", "saveStorage">> \o k)
               [] m.adapter = "ff" ->
                     Bind(ffSave(m, depth), LAMBDA m3 : Returned(m3, <<"saveStorage">> \o k))
               [] OTHER ->
                     Bind(saveSettings(m, depth + 1),
                          LAMBDA m1 : Returned(m1, <<"saveStorage">> \o k)))

\* saveToFile() up to its first await
StartSaveToFile(m, k) ==
    IF ~m.fileHandle THEN Resume(m, k, FALSE)
    ELSE Spawn(Stamp(m), <<"saveToFile:createWritable">> \o k)

\* backupFile() up to its first await
StartBackupFile(m, k) ==
    IF ~m.fileHandle THEN Resume(m, k, FALSE)
    ELSE Spawn(m, <<"backupFile:picker">> \o k)

\* loadFromFile() up to its first await
StartLoadFromFile(m, k) ==
    IF ~m.fileHandle THEN Resume(m, k, FALSE)
    ELSE Spawn(m, <<"loadFromFile:getFile">> \o k)

\* the frame f of an operation receives r
Frame(m, f, k, r) ==
    CASE f = "saveSettings.then" -> m
      [] f = "saveStorage" ->
            Resume(Logged(m, IF r THEN "saveStorage:true" ELSE "saveStorage:false"),
                   k, r)
      [] f = "openStorage" ->
            Resume(Logged(m, IF r THEN "openStorage:true" ELSE "openStorage:false"),
                   k, r)
      [] f = "backupStorage" ->
            Resume(Logged(m, IF r THEN "backupStorage:true" ELSE "backupStorage:false"),
                   k, r)
      [] f = "restoreStorage" ->
            Resume(Logged(m, IF r THEN "restoreStorage:true" ELSE "restoreStorage:false"),
                   k, r)
      [] f = "initFileStorage:afterOpen" -> Resume(m, k, TRUE)
      [] f \in {"toggleFileStorage.then", "selectStorageFile.then"} ->
            Resume(IF r THEN [m EXCEPT !.enabled = TRUE] ELSE m, k, r)
      [] f = "selectStorageFile.opened" ->
            IF r THEN StartLoadFromFile([m EXCEPT !.enabled = TRUE], k)
            ELSE Resume(m, k, r)
      [] f = "saveToFile:afterBackup" -> Resume(m, k, TRUE)
      [] f = "createStorageFile:afterSave" -> Resume(m, k, TRUE)
      [] f = "openStorageFile:afterLoad" ->
            IF r THEN Resume(m, k, TRUE)
            ELSE StartSaveToFile(m, <<"openStorageFile:afterSave">> \o k)
      [] f = "openStorageFile:afterSave" -> Resume(m, k, TRUE)
      [] f = "loadFromFile:afterRestore" -> Resume(m, k, r)
      [] f = "restoreFromBackup:afterSave" ->
            Bind(saveSettings(m, 1),
                 LAMBDA m1 : IF m1.exc THEN Resume(Caught(m1), k, FALSE)
                             ELSE Resume(m1, k, TRUE))
      [] f = "idbOpen:afterSave" -> Resume(m, k, TRUE)
      [] OTHER -> Resume(m, k, r)

\* the awaited call returned r: the frames of stack run until one awaits
\* again or the operation ends
Resume(m0, stack, r) ==
    Bind(m0,
         LAMBDA m :
             IF stack = << >> THEN [m EXCEPT !.ret = r, !.fin = TRUE]
             ELSE Frame(m, Head(stack), Tail(stack), r))

-----------------------------------------------------------------------------
(* State *)

VARIABLES
    now,         \* Date.now()
    probes,      \* what the capability probes of this browser answer
    domOk,       \* document.createElement / appendChild work
    cur,         \* model.currentSettings
    def,         \* model.defaultSettings
    alias,       \* which objects currentSettings shares with defaultSettings
    ls,          \* localStorage[storageKey]
    enabled,     \* model.isFileStorageEnabled
    adapter,     \* model.storageAdapter: "none", "fs", "idb", "ff" or "ls"
    fileHandle,  \* model.fileHandle is set
    file,        \* the file behind model.fileHandle
    backup,      \* the backup file last written
    idb,         \* record 1 of the IndexedDB store
    download,    \* the file last handed to the browser as a download
    pending,     \* storage operations suspended at an await
    log,         \* what the last turn did, in order
    ret,         \* what the last call or operation returned, as text
    calls,       \* calls made so far
    addedIds,    \* ids of the items addNavigationItem returned, in call order
    last,        \* the call or step taken last
    before,      \* model.currentSettings when the last turn began
    settled,     \* the timestamps of model.currentSettings and of the
                 \* localStorage copy when an operation last completed
                 \* before the last turn
    mutated,     \* the last call was setWallpaper, made while adapter
                 \* saves or a restoreStorage were suspended
    untrusted,   \* the stored text the last turn read, if its checksum
                 \* does not match its content
    host,        \* window and navigator as the capability probes find them
    quota,       \* localStorage.setItem throws QuotaExceededError
    args,        \* the arguments of the last call
    idbConn,     \* the IndexedDBAdapter's db field, the open requests made
                 \* for it and the connections its callers received
    menu         \* the icon context menu: its click listeners, whether it
                 \* is shown, app.currentEditItemId and what the last click
                 \* on an entry did

vars ==
    <<now, probes, domOk, cur, def, alias, ls, enabled, adapter, fileHandle,
      file, backup, idb, download, pending, log, ret, calls, addedIds, last,
      before, untrusted, host, quota, args, settled, mutated, idbConn,
      menu>>


\* the model object at the start of a synchronous turn
M ==
    [cur |-> cur, def |-> def, alias |-> alias, ls |-> ls, now |-> now,
     enabled |-> enabled, adapter |-> adapter, fileHandle |-> fileHandle,
     domOk |-> domOk, file |-> file, backup |-> backup, idb |-> idb,
     download |-> download, pending |-> pending, quota |-> quota,
     log |-> << >>, ret |-> TRUE, exc |-> FALSE, fin |-> FALSE]

RetOf(b) == IF b THEN "true" ELSE "false"

\* the turn ends: the model object becomes the state
CommitModel(m) ==
    /\ cur' = m.cur
    /\ def' = m.def
    /\ alias' = m.alias
    /\ ls' = m.ls
    /\ enabled' = m.enabled
    /\ adapter' = m.adapter
    /\ fileHandle' = m.fileHandle
    /\ file' = m.file
    /\ backup' = m.backup
    /\ idb' = m.idb
    /\ download' = m.download
    /\ pending' = m.pending
    /\ log' = m.log
    /\ UNCHANGED <<now, probes, domOk, host, quota>>

\* a turn of the model that touches neither the IndexedDB connection nor
\* the context menu
Commit(m) == CommitModel(m) /\ UNCHANGED <<idbConn, menu>>

\* a call that returns nothing; called is the model object it leaves
Void(called) == \E m \in {called} : Commit(m) /\ ret' = "undefined"
\* a call that returns a boolean
Bool(called) == \E m \in {called} : Commit(m) /\ ret' = RetOf(m.ret)
\* a call whose result is described by the text r
Returns(called, r) == \E m \in {called} : Commit(m) /\ ret' = r

\* new NavigationModel(): loadSettings, then ensureSettingsStructure
Constructed(t, stored) ==
    LET m0 == [cur |-> defaultSettings(t), def |-> defaultSettings(t),
               alias |-> DocAlias, ls |-> stored, now |-> t,
               enabled |-> FALSE, adapter |-> "none", fileHandle |-> FALSE,
               domOk |-> domOk, file |-> NoStore, backup |-> NoStore,
               idb |-> NoStore, download |-> NoStore, pending |-> << >>,
               quota |-> quota,
               log |-> << >>, ret |-> TRUE, exc |-> FALSE, fin |-> FALSE]
    IN  ensureSettingsStructure(loadSettings(m0), 1)

\* the four browsers of the model, one per adapter
ProbeSets ==
    { [fs |-> TRUE, idb |-> TRUE, firefox |-> FALSE, trea |-> FALSE],
      [fs |-> FALSE, idb |-> TRUE, firefox |-> TRUE, trea |-> FALSE],
      [fs |-> FALSE, idb |-> FALSE, firefox |-> TRUE, trea |-> FALSE],
      [fs |-> FALSE, idb |-> FALSE, firefox |-> FALSE, trea |-> FALSE] }

\* the tokens userAgent.includes() is asked for
UA_Firefox == {"mozilla/", "firefox"}
UA_Chrome == {"mozilla/", "chrome", "safari/"}
UA_Edge == {"mozilla/", "chrome", "safari/", "edg/"}
UA_Safari == {"mozilla/", "safari/"}
UA_Trea == {"mozilla/", "chrome", "safari/", "trea"}

\* navigator.userAgent: reading it throws, or it holds the tokens of has
UserAgent(throws, has) == [throws |-> throws, has |-> has]

\* isFileSystemAPISupported(): three typeof tests inside a try
isFileSystemAPISupported(h) ==
    /\ h.showSaveFilePicker = "function"
    /\ h.showOpenFilePicker = "function"
    /\ h.FileSystemWritableFileStream = "function"

\* isIndexedDBSupported(): typeof window.indexedDB inside a try
isIndexedDBSupported(h) == h.indexedDB = "object"

\* isTreaBrowser(): userAgent.includes('trea') inside a try
isTreaBrowser(h) == ~h.userAgent.throws /\ "trea" \in h.userAgent.has

\* the try block of isFirefox() throws
FirefoxTestThrows(h) == h.userAgent.throws \/ h.vendor = "throws"

\* what the try block of isFirefox() returns
FirefoxTest(h) ==
    \/ /\ "firefox" \in h.userAgent.has \/ "mozilla/" \in h.userAgent.has
       /\ "chrome" \notin h.userAgent.has /\ "chromium" \notin h.userAgent.has
       /\ "edg/" \notin h.userAgent.has
       /\ "safari/" \notin h.userAgent.has \/ h.vendor = "mozilla"
    \/ h.mozInnerScreenX

\* isFirefox() throws: its catch block reads userAgent again
isFirefoxThrows(h) == FirefoxTestThrows(h) /\ h.userAgent.throws

\* isFirefox() when it returns
isFirefox(h) ==
    IF FirefoxTestThrows(h) THEN "firefox" \in h.userAgent.has ELSE FirefoxTest(h)

\* what the four probes answer on the host h when none throws
Answers(h) ==
    [fs |-> isFileSystemAPISupported(h), idb |-> isIndexedDBSupported(h),
     firefox |-> isFirefox(h), trea |-> isTreaBrowser(h)]

\* a host on which the probes answer p
HostOf(p) ==
    [showSaveFilePicker |-> IF p.fs THEN "function" ELSE "undefined",
     showOpenFilePicker |-> IF p.fs THEN "function" ELSE "undefined",
     FileSystemWritableFileStream |-> IF p.fs THEN "function" ELSE "undefined",
     indexedDB |-> IF p.idb THEN "object" ELSE "undefined",
     userAgent |-> UserAgent(FALSE, IF p.firefox THEN UA_Firefox
                                    ELSE IF p.trea THEN UA_Trea ELSE UA_Chrome),
     vendor |-> IF p.firefox THEN "" ELSE "google",
     mozInnerScreenX |-> p.firefox]

\* new IndexedDBAdapter(): db is null, indexedDB.open was never invoked
NoConnection == [db |-> 0, opens |-> 0, waiting |-> {}, got |-> {}]

\* new NavigationApp(): the menu entries have no click listener, no menu
\* is shown and currentEditItemId is null
NoMenu ==
    [listeners |-> 0, shown |-> FALSE, currentEditItemId |-> Null,
     action |-> "none", handled |-> 0, confirms |-> 0]

\* the page before any call
Unstarted ==
    /\ now = 1
    /\ ret = "undefined"
    /\ enabled = FALSE
    /\ adapter = "none"
    /\ fileHandle = FALSE
    /\ file = NoStore
    /\ idb = NoStore
    /\ download = NoStore
    /\ pending = << >>
    /\ calls = 0
    /\ addedIds = << >>
    /\ before = defaultSettings(0)
    /\ settled = <<Undef, Undef>>
    /\ mutated = FALSE
    /\ untrusted = NoStore
    /\ args = << >>
    /\ idbConn = NoConnection
    /\ menu = NoMenu

\* what every browser starts from: no backup file exists
Blank == backup = NoStore /\ Unstarted

\* a browser that has loaded no page of the application yet, in which
\* nothing fails
Browser ==
    /\ probes \in ProbeSets
    /\ host = HostOf(probes)
    /\ domOk = TRUE
    /\ quota = FALSE
    /\ Blank

\* new NavigationModel() has run on empty storage
FirstVisit ==
    /\ \E m \in {Constructed(1, NoStore)} :
           /\ cur = m.cur /\ def = m.def /\ alias = m.alias /\ ls = m.ls
           /\ log = m.log
    /\ last = "constructor"

\* first visit: nothing stored anywhere
Init == Browser /\ FirstVisit

\* the clock advances between turns
Tick ==
    /\ now < MaxTime
    /\ now' = now + 1
    /\ UNCHANGED <<probes, domOk, cur, def, alias, ls, enabled, adapter,
                   fileHandle, file, backup, idb, download, pending, log, ret,
                   calls, addedIds, before, untrusted, host, quota,
                   settled, mutated, idbConn, menu>>
    /\ last' = "Tick"
    /\ args' = << >>

-----------------------------------------------------------------------------
(* Navigation item mutators *)

Items(m) == m.cur.navigationItems.v

\* Number(v) as Math.max sees it: <<isNaN, value>>
ToNumber(v) ==
    CASE v[1] = T_NUM -> <<FALSE, v[2]>>
      [] v[1] = T_NULL -> <<FALSE, 0>>
      [] v[1] = T_STR /\ Len(v) = 1 -> <<FALSE, 0>>
      [] OTHER -> <<TRUE, 0>>

\* Math.max(...vs, 0) + 1
NextId(vs) ==
    LET ns == {ToNumber(vs[i]) : i \in 1..Len(vs)}
        mx == CHOOSE x \in {n[2] : n \in ns} \cup {0} :
                  \A y \in {n[2] : n \in ns} \cup {0} : y <= x
    IN  IF \E n \in ns : n[1] THEN NaN ELSE Num(mx + 1)

\* { ...a, ...b } of two items: a key of b wins, also when its value is
\* undefined; Absent marks a key b does not have
Spread(a, b) ==
    LET pick(f) == IF b[f] = Absent THEN a[f] ELSE b[f]
    IN  Item(pick("id"), pick("name"), pick("url"), pick("icon"), pick("toolGroupId"))

NoKeys == Item(Absent, Absent, Absent, Absent, Absent)

\* an object literal without its absent keys
Literal(it) ==
    LET val(f) == IF it[f] = Absent THEN Undef ELSE it[f]
    IN  Item(val("id"), val("name"), val("url"), val("icon"), val("toolGroupId"))

\* navigationItems.findIndex(item => item.id === id), 0 for -1
FindIndex(items, id) ==
    IF \E i \in 1..Len(items) : StrictEq(items[i].id, id)
    THEN CHOOSE i \in 1..Len(items) :
            /\ StrictEq(items[i].id, id)
            /\ \A j \in 1..(i - 1) : ~StrictEq(items[j].id, id)
    ELSE 0

SetItems(m, items) == MutateNested(m, "navigationItems", Arr(K_OK, items))

RemoveAt(s, i) == [j \in 1..(Len(s) - 1) |-> IF j < i THEN s[j] ELSE s[j + 1]]
SwapAt(s, i, j) == [s EXCEPT ![i] = s[j], ![j] = s[i]]

\* the item addNavigationItem(item) builds
NewItem(m, item) ==
    Literal(Spread([NoKeys EXCEPT !.id = NextId([i \in 1..Len(Items(m)) |-> Items(m)[i].id])],
                   item))

addNavigationItem(m, item) ==
    Ret(saveSettings(SetItems(m, Append(Items(m), NewItem(m, item))), 1), TRUE)

updateNavigationItem(m, id, updates) ==
    LET index == FindIndex(Items(m), id)
    IN  IF index # 0
        THEN Ret(saveSettings(
                    SetItems(m, [Items(m) EXCEPT ![index] = Literal(Spread(@, updates))]), 1),
                 TRUE)
        ELSE Ret(m, FALSE)

deleteNavigationItem_cascades(m, id) ==
    LET index == FindIndex(Items(m), id)
        kept(g) == [g EXCEPT !.items = SelectSeq(@, LAMBDA e : ~StrictEq(e.id, id))]
        groups == [i \in 1..Len(m.cur.toolGroups.v) |-> kept(m.cur.toolGroups.v[i])]
    IN  IF index # 0
        THEN Ret(saveSettings(
                    MutateNested(SetItems(m, RemoveAt(Items(m), index)),
                                 "toolGroups", Arr(K_OK, groups)), 1), TRUE)
        ELSE Ret(m, FALSE)

deleteNavigationItem(m, id) ==
    LET index == FindIndex(Items(m), id)
    IN  IF index # 0
        THEN Ret(saveSettings(SetItems(m, RemoveAt(Items(m), index)), 1), TRUE)
        ELSE Ret(m, FALSE)

moveNavigationItem_firstMovesUp(m, id, direction) ==
    LET index == FindIndex(Items(m), id)
    IN  IF index = 0 THEN Ret(m, FALSE)
        ELSE IF direction = "up"
        THEN Ret(saveSettings(SetItems(m, SwapAt(Items(m), index,
                                                 IF index > 1 THEN index - 1 ELSE 1)), 1), TRUE)
        ELSE IF direction = "down" /\ index < Len(Items(m))
        THEN Ret(saveSettings(SetItems(m, SwapAt(Items(m), index, index + 1)), 1), TRUE)
        ELSE Ret(m, FALSE)

moveNavigationItem(m, id, direction) ==
    LET index == FindIndex(Items(m), id)
    IN  IF index = 0 THEN Ret(m, FALSE)
        ELSE IF direction = "up" /\ index > 1
        THEN Ret(saveSettings(SetItems(m, SwapAt(Items(m), index, index - 1)), 1), TRUE)
        ELSE IF direction = "down" /\ index < Len(Items(m))
        THEN Ret(saveSettings(SetItems(m, SwapAt(Items(m), index, index + 1)), 1), TRUE)
        ELSE Ret(m, FALSE)

reorderNavigationItems(m, newOrder) ==
    Ret(saveSettings(AssignField(m, "navigationItems", Arr(K_OK, newOrder)), 1), TRUE)

-----------------------------------------------------------------------------
(* Wallpaper, layout, search and text colour *)

setWallpaper(m, wallpaper) == saveSettings(AssignField(m, "wallpaper", wallpaper), 1)

\* { ...layout, ...updates }
SpreadLayout(l, u) ==
    LET pick(f) == IF u[f] = Absent THEN l[f] ELSE u[f]
    IN  Layout(K_OK, pick("columns"), pick("spacing"), pick("iconSize"))

updateLayout(m, updates) ==
    saveSettings(AssignField(m, "layout", SpreadLayout(m.cur.layout, updates)), 1)

SpreadSearch(s, u) ==
    LET pick(f) == IF u[f] = Absent THEN s[f] ELSE u[f]
    IN  Search(K_OK, pick("engine"), pick("opacity"))

updateSearchSettings(m, updates) ==
    Ret(saveSettings(AssignField(m, "search", SpreadSearch(m.cur.search, updates)), 1), TRUE)

setSearchEngine(m, engine) ==
    saveSettings(MutateNested(m, "search", [m.cur.search EXCEPT !.engine = engine]), 1)

setSearchOpacity(m, opacity) ==
    saveSettings(MutateNested(m, "search", [m.cur.search EXCEPT !.opacity = opacity]), 1)

setTextColor(m, color) == saveSettings(AssignField(m, "textColor", color), 1)

resetToDefault(m) == saveSettings(AssignDefaults(m), 1)

-----------------------------------------------------------------------------
(* Tool groups *)

Groups(m) == m.cur.toolGroups.v
S_newGroup == Str(<<78>>)
Group(id, name, items) == [id |-> id, name |-> name, items |-> items]

SetGroups(m, gs) == MutateNested(m, "toolGroups", Arr(K_OK, gs))

\* { id: newId, name: '...', items: [], ...group } for a group = { name }
NewGroup(m, name) ==
    Group(NextId([i \in 1..Len(Groups(m)) |-> Groups(m)[i].id]),
          IF name = Absent THEN S_newGroup ELSE name, << >>)

addToolGroup(m, name) ==
    Ret(saveSettings(SetGroups(m, Append(Groups(m), NewGroup(m, name))), 1), TRUE)

updateToolGroup(m, id, name) ==
    LET index == FindIndex(Groups(m), id)
    IN  IF index # 0
        THEN Ret(saveSettings(SetGroups(m, [Groups(m) EXCEPT ![index].name = name]), 1), TRUE)
        ELSE Ret(m, FALSE)

deleteToolGroup(m, id) ==
    LET index == FindIndex(Groups(m), id)
    IN  IF index # 0
        THEN Ret(saveSettings(SetGroups(m, RemoveAt(Groups(m), index)), 1), TRUE)
        ELSE Ret(m, FALSE)

\* the item addItemToToolGroup pushes: an item without id gets one
GroupItem(g, item) ==
    IF Falsy(item.id)
    THEN [item EXCEPT !.id = NextId([i \in 1..Len(g.items) |-> g.items[i].id])]
    ELSE item

addItemToToolGroup(m, groupId, item) ==
    LET index == FindIndex(Groups(m), groupId)
    IN  IF index # 0
        THEN Ret(saveSettings(
                    SetGroups(m, [Groups(m) EXCEPT ![index].items =
                                      Append(@, GroupItem(Groups(m)[index], item))]), 1),
                 TRUE)
        ELSE Ret(m, FALSE)

removeItemFromToolGroup(m, groupId, itemId) ==
    LET gi == FindIndex(Groups(m), groupId)
        index == IF gi # 0 THEN FindIndex(Groups(m)[gi].items, itemId) ELSE 0
    IN  IF index # 0
        THEN Ret(saveSettings(
                    SetGroups(m, [Groups(m) EXCEPT ![gi].items = RemoveAt(@, index)]), 1),
                 TRUE)
        ELSE Ret(m, FALSE)

-----------------------------------------------------------------------------
(* The flows of NavigationApp that move a shortcut into a tool group *)

\* selectToolgroupBtn click and the drop handlers of a group: the item is
\* pushed to the group, then deleted from navigationItems
moveIntoToolGroup(m, groupId, id) ==
    LET index == FindIndex(Items(m), id)
    IN  IF index = 0 THEN m
        ELSE Bind(addItemToToolGroup(m, groupId, Items(m)[index]),
                  LAMBDA m1 : IF m1.ret THEN deleteNavigationItem(m1, id) ELSE m1)

\* toolgroupEditForm submit with tempAddToToolgroupId = id and no group
\* being edited: the group is created, the item moved into it, and the
\* group deleted again when a step fails
createToolGroupFor(m, name, id) ==
    LET newGroupId == NewGroup(m, name).id
        index == FindIndex(Items(m), id)
    IN  IF index = 0 THEN addToolGroup(m, name)
        ELSE Bind(addItemToToolGroup(addToolGroup(m, name), newGroupId, Items(m)[index]),
                  LAMBDA m1 :
                      IF ~m1.ret THEN deleteToolGroup(m1, newGroupId)
                      ELSE Bind(deleteNavigationItem(m1, id),
                                LAMBDA m2 : IF m2.ret THEN m2
                                            ELSE deleteToolGroup(m2, newGroupId)))

\* `${item1.name} + ${item2.name}`
MergedName(item1, item2) ==
    Str(CharsOf(item1.name) \o <<32, 43, 32>> \o CharsOf(item2.name))

\* NavigationApp.mergeItemsIntoToolGroup(itemId1, itemId2)
mergeItemsIntoToolGroup(m, itemId1, itemId2) ==
    LET i1 == FindIndex(Items(m), itemId1)
        i2 == FindIndex(Items(m), itemId2)
    IN  IF i1 = 0 \/ i2 = 0 THEN m
        ELSE LET item1 == Items(m)[i1]
                 item2 == Items(m)[i2]
                 newGroupName == MergedName(item1, item2)
                 newGroupId == NewGroup(m, newGroupName).id
                 added == addItemToToolGroup(
                              addItemToToolGroup(addToolGroup(m, newGroupName),
                                                 newGroupId, item1),
                              newGroupId, item2)
             IN  Bind(deleteNavigationItem(added, itemId1),
                      LAMBDA deleted1 :
                          Bind(deleteNavigationItem(deleted1, itemId2),
                               LAMBDA deleted2 :
                                   IF deleted1.ret /\ deleted2.ret THEN deleted2
                                   ELSE deleteToolGroup(deleted2, newGroupId)))

-----------------------------------------------------------------------------
(* Export and import *)

\* JSON.stringify(this.currentSettings, null, 2), as the text parses back
exportSettings(m) == Stored(JsonRoundTrip(m.cur))

\* the backfill of importSettings on the parsed object
Backfilled(m, d) ==
    [d EXCEPT
        !.toolGroups = IF @.k = K_UNDEF THEN Arr(K_OK, << >>) ELSE @,
        !.search = IF @.k = K_UNDEF THEN m.def.search ELSE @,
        !.layout = IF @.k = K_UNDEF THEN m.def.layout ELSE @,
        !.navigationItems = IF @.k = K_UNDEF THEN Arr(K_OK, << >>) ELSE @]

\* this.currentSettings = imported, with what imported took from the defaults
AssignImported(m, raw) ==
    [m EXCEPT !.cur = Backfilled(m, raw),
              !.alias = [NoAlias EXCEPT !.search = raw.search.k = K_UNDEF,
                                        !.layout = raw.layout.k = K_UNDEF]]

importSettings_assignsFirst(m, data) ==
    IF data.k # "json" \/ data.d.k # K_OK THEN Ret(m, FALSE)
    ELSE IF validateSettings(Backfilled(m, data.d))
    THEN
        Bind(Bind(ensureSettingsStructure(AssignImported(m, data.d), 1),
                  LAMBDA m1 : IF m1.exc THEN m1 ELSE saveSettings(m1, 1)),
             LAMBDA m2 : IF m2.exc THEN Ret(Caught(m2), FALSE) ELSE Ret(m2, TRUE))
    ELSE Ret(AssignImported(m, data.d), FALSE)

importSettings(m, data) ==
    IF data.k # "json" \/ data.d.k # K_OK THEN Ret(m, FALSE)
    ELSE IF validateSettings(Backfilled(m, data.d))
    THEN
        Bind(Bind(ensureSettingsStructure(AssignImported(m, data.d), 1),
                  LAMBDA m1 : IF m1.exc THEN m1 ELSE saveSettings(m1, 1)),
             LAMBDA m2 : IF m2.exc THEN Ret(Caught(m2), FALSE) ELSE Ret(m2, TRUE))
    ELSE Ret(m, FALSE)

-----------------------------------------------------------------------------
(* Storage operations: what runs between two awaits *)

\* createStorageAdapter() with IndexedDB tested before the file system API
createStorageAdapter_idbFirst(p) ==
    IF p.idb THEN "idb"
    ELSE IF p.fs THEN "fs"
    ELSE IF p.firefox \/ p.trea THEN "ff"
    ELSE "ls"

\* createStorageAdapter() when no probe throws: p holds the answers of
\* isFileSystemAPISupported, isIndexedDBSupported, isFirefox, isTreaBrowser
createStorageAdapter(p) ==
    IF p.fs THEN "fs"
    ELSE IF p.idb THEN "idb"
    ELSE IF p.firefox \/ p.trea THEN "ff"
    ELSE "ls"

\* createStorageAdapter() on the host h: a probe that throws out of
\* isFirefox() is caught by its try block, which returns the last adapter
StorageAdapterFor(h) ==
    IF /\ ~isFileSystemAPISupported(h)
       /\ ~isIndexedDBSupported(h)
       /\ isFirefoxThrows(h)
    THEN "ls"
    ELSE createStorageAdapter(Answers(h))

\* { id: 1, ...this.model.currentSettings }, as the store clones it
IdbRecord(d) == [d EXCEPT !.id = Num(1)]

\* what executeTransaction resolves with: the request object store.get(1)
\* returned, which has none of the fields of a document
IDBRequest ==
    [defaultSettings(0) EXCEPT
        !.version = Undef, !.timestamp = Undef, !.checksum = Undef,
        !.wallpaper = Undef, !.textColor = Undef,
        !.navigationItems = Arr(K_UNDEF, << >>),
        !.toolGroups = Arr(K_UNDEF, << >>),
        !.layout = Layout(K_UNDEF, Undef, Undef, Undef),
        !.search = Search(K_UNDEF, Undef, Undef)]

\* a settings file exported on an earlier day, and the same file after an
\* edit of its wallpaper that left the checksum alone
ExportedDoc ==
    LET d == [defaultSettings(1) EXCEPT !.textColor = S_red]
    IN  [d EXCEPT !.checksum = generateChecksum(d)]
EditedDoc == [ExportedDoc EXCEPT !.wallpaper = S_img]
FileInputs == {Garbage, Stored(ExportedDoc), Stored(EditedDoc)}

\* the files the user can choose in a file picker
UserFiles(m) ==
    FileInputs \cup {f \in {m.file, m.backup, m.download} : f.k = "json"}

\* the stored text a turn read, kept when its checksum does not match
Mismatching(f) == IF f.k = "json" /\ ~verifyChecksum(f.d) THEN f ELSE NoStore

\* restoreFromBackup() up to its first await
StartRestoreFromBackup(m, k) == Spawn(m, <<"restoreFromBackup:picker">> \o k)

\* storageAdapter.openStorage() up to its first await
StartOpenStorage(m, k) ==
    CASE m.adapter = "fs" -> Spawn(m, <<"openStorageFile:picker", "openStorage">> \o k)
      [] m.adapter = "idb" -> Spawn(m, <<"idbOpen:get", "openStorage">> \o k)
      [] m.adapter = "ff" ->
            IF ~m.domOk THEN Resume(loadSettings(m), <<"openStorage">> \o k, TRUE)
            ELSE Spawn(m, <<"ffOpen:picker", "openStorage">> \o k)
      [] OTHER -> Resume(loadSettings(m), <<"openStorage">> \o k, TRUE)

\* initFileStorage() up to its first await; k waits for its result
initFileStorageThen(m, p, k) ==
    StartOpenStorage(Logged([m EXCEPT !.adapter = createStorageAdapter(p),
                                      !.enabled = TRUE],
                            "createStorageAdapter"),
                     <<"initFileStorage:afterOpen">> \o k)
initFileStorage(m, p) == initFileStorageThen(m, p, << >>)

\* createStorageFile() up to its first await
createStorageFile(m) == Spawn(m, <<"createStorageFile:picker">>)

\* data = JSON.parse(text) passed its test: currentSettings = data;
\* ensureSettingsStructure(); saveSettings()
Adopt(m, d) ==
    Bind(ensureSettingsStructure(AssignDoc(m, d), 1),
         LAMBDA m1 : IF m1.exc THEN m1 ELSE saveSettings(m1, 1))

\* showOpenFilePicker of openStorageFile settled: f is the chosen file,
\* NoStore when the user cancelled
openStorageFile_picker(m, k, f) ==
    IF f.k = "none" THEN Resume(m, k, FALSE)
    ELSE StartLoadFromFile([m EXCEPT !.fileHandle = TRUE, !.file = f],
                           <<"openStorageFile:afterLoad">> \o k)

\* showSaveFilePicker of createStorageFile settled; the chosen name is a
\* new file or the file of the handle held before
createStorageFile_picker(m, k, picked, fresh) ==
    IF ~picked THEN Resume(m, k, FALSE)
    ELSE StartSaveToFile([m EXCEPT !.fileHandle = TRUE,
                                   !.file = IF fresh THEN NoStore ELSE @],
                         <<"createStorageFile:afterSave">> \o k)

\* fileHandle.getFile(), file.text() settled in loadFromFile
loadFromFile_getFile(m, k) ==
    IF m.file.k # "json" THEN Resume(m, k, FALSE)
    ELSE IF verifyChecksum(m.file.d)
    THEN Bind(Adopt(m, m.file.d),
              LAMBDA m1 : IF m1.exc THEN Resume(Caught(m1), k, FALSE)
                          ELSE Resume(m1, k, TRUE))
    ELSE StartRestoreFromBackup(m, <<"loadFromFile:afterRestore">> \o k)

\* fileHandle.createWritable() settled in saveToFile: the document is
\* serialized into the stream
saveToFile_createWritable(m, k, ok) ==
    IF ~ok THEN Resume(m, k, FALSE)
    ELSE SpawnWith(m, <<"saveToFile:close">> \o k, Stored(JsonRoundTrip(m.cur)))

\* writable.close() settled in saveToFile: the file holds the stream
saveToFile_close(m, k, buf) ==
    StartBackupFile([m EXCEPT !.file = buf], <<"saveToFile:afterBackup">> \o k)

\* showSaveFilePicker of backupFile settled
backupFile_picker(m, k, picked) ==
    IF ~picked THEN Resume(m, k, FALSE)
    ELSE Spawn(m, <<"backupFile:createWritable">> \o k)

backupFile_createWritable(m, k) ==
    SpawnWith(m, <<"backupFile:close">> \o k, Stored(JsonRoundTrip(m.cur)))

backupFile_close(m, k, buf) == Resume([m EXCEPT !.backup = buf], k, TRUE)

\* showOpenFilePicker, getFile, text settled in restoreFromBackup
restoreFromBackup_picker(m, k, f) ==
    IF f.k # "json" THEN Resume(m, k, FALSE)
    ELSE IF verifyChecksum(f.d)
    THEN Bind(ensureSettingsStructure(AssignDoc(m, f.d), 1),
              LAMBDA m1 :
                  IF m1.exc THEN Resume(Caught(m1), k, FALSE)
                  ELSE StartSaveToFile(m1, <<"restoreFromBackup:afterSave">> \o k))
    ELSE Resume(m, k, FALSE)

\* the change event of the Firefox adapter's file input, and the load
\* event of its FileReader
ffOpen_picker(m, k, f) ==
    IF f.k # "json" THEN Resume(m, k, FALSE)
    ELSE IF validateSettings(f.d)
    THEN Bind(Adopt(m, f.d),
              LAMBDA m1 : IF m1.exc THEN Resume(Caught(m1), k, FALSE)
                          ELSE Resume(m1, k, TRUE))
    ELSE Resume(m, k, FALSE)

\* the read transaction of IndexedDBAdapter.openStorage settled
idbOpen_get(m, k, ok) ==
    IF ~ok THEN Resume(loadSettings(m), k, TRUE)
    ELSE LET settings == IDBRequest
             loaded(m1) == IF m1.exc THEN Resume(loadSettings(Caught(m1)), k, TRUE)
                           ELSE Resume(m1, k, TRUE)
         IN  IF settings.k # K_OK
             THEN StartSaveStorage(loadSettings(m), <<"idbOpen:afterSave">> \o k, 1)
             ELSE IF validateSettings(settings)
             THEN Bind(Adopt(m, settings), loaded)
             ELSE Bind(ensureSettingsStructure(AssignDefaults(m), 1), loaded)

\* initDB() settled in IndexedDBAdapter.saveStorage: store.put clones the
\* record
idbSave_put(m, k, ok) ==
    IF ~ok THEN Bind(saveSettings(m, 1), LAMBDA m1 : Resume(m1, k, m1.ret))
    ELSE SpawnWith(m, <<"idbSave:complete">> \o k, Stored(IdbRecord(m.cur)))

\* the write transaction completed or failed
idbSave_complete(m, k, buf, ok) ==
    IF ~ok THEN Bind(saveSettings(m, 1), LAMBDA m1 : Resume(m1, k, m1.ret))
    ELSE Resume(saveSettings([m EXCEPT !.idb = buf], 1), k, TRUE)

\* an exception no try block of the operation catches: its promise is
\* rejected
Reject(m) == [Throw(m) EXCEPT !.fin = TRUE]

\* storageAdapter.backupStorage() up to its first await
StartBackupStorage(m, k) ==
    CASE m.adapter = "fs" -> StartBackupFile(m, <<"backupStorage">> \o k)
      [] m.adapter = "idb" -> Spawn(m, <<"idbBackup:get", "backupStorage">> \o k)
      [] m.adapter = "ff" ->
            IF ~m.domOk
            THEN Bind(saveSettings(m, 1),
                      LAMBDA m1 : Returned(m1, <<"backupStorage">> \o k))
            ELSE Resume(Download(Stamp(m)), <<"backupStorage">> \o k, TRUE)
      [] OTHER ->
            IF ~m.domOk THEN Reject(m)
            ELSE Resume(Download(m), <<"backupStorage">> \o k, TRUE)

\* the read transaction of IndexedDBAdapter.backupStorage settled: the
\* request object is what gets serialized
idbBackup_get(m, k, ok) ==
    IF ~ok \/ ~m.domOk
    THEN Bind(saveSettings(m, 1), LAMBDA m1 : Returned(m1, k))
    ELSE Resume([m EXCEPT !.download = Stored(JsonRoundTrip(IDBRequest))], k, TRUE)

\* storageAdapter.restoreStorage() up to its first await
StartRestoreStorage(m, k) ==
    CASE m.adapter = "fs" -> StartRestoreFromBackup(m, <<"restoreStorage">> \o k)
      [] m.adapter = "idb" ->
            IF ~m.domOk THEN Reject(m)
            ELSE Spawn(m, <<"idbRestore:change", "restoreStorage">> \o k)
      [] m.adapter = "ff" ->
            IF ~m.domOk
            THEN Resume(loadSettings(m), <<"openStorage", "restoreStorage">> \o k, TRUE)
            ELSE Spawn(m, <<"ffOpen:picker", "openStorage", "restoreStorage">> \o k)
      [] OTHER ->
            IF ~m.domOk THEN Reject(m)
            ELSE Spawn(m, <<"lsRestore:change", "restoreStorage">> \o k)

\* the change event of the file input of LocalStorageAdapter.restoreStorage
\* and the load event of its FileReader; f is NoStore when no file came
lsRestore_change(m, k, f) ==
    IF f.k # "json" THEN Resume(m, k, FALSE)
    ELSE IF validateSettings(f.d)
    THEN Bind(Adopt(m, f.d),
              LAMBDA m1 : IF m1.exc THEN Resume(Caught(m1), k, FALSE)
                          ELSE Resume(m1, k, TRUE))
    ELSE Resume(m, k, FALSE)

\* data.timestamp = Date.now(); data.checksum = generateChecksum(data)
StampDoc(d, t) ==
    Bind([d EXCEPT !.timestamp = Num(t)],
         LAMBDA d1 : [d1 EXCEPT !.checksum = generateChecksum(d1)])

\* the same events in IndexedDBAdapter.restoreStorage: the stamped data
\* waits for the write transaction
idbRestore_change(m, k, f) ==
    IF f.k # "json" THEN Resume(m, k, FALSE)
    ELSE IF validateSettings(f.d)
    THEN SpawnWith(m, <<"idbRestore:put">> \o k, Stored(StampDoc(f.d, m.now)))
    ELSE Resume(m, k, FALSE)

\* the write transaction of IndexedDBAdapter.restoreStorage settled
idbRestore_put(m, k, buf, ok) ==
    IF ~ok THEN Resume(m, k, FALSE)
    ELSE Bind(Adopt([m EXCEPT !.idb = Stored(IdbRecord(buf.d))], buf.d),
              LAMBDA m1 : IF m1.exc THEN Resume(Caught(m1), k, FALSE)
                          ELSE Resume(m1, k, TRUE))

\* isFileStorageEnabled || isFirefox() || isTreaBrowser()
UsesAdapter(m, p) == m.enabled \/ p.firefox \/ p.trea

\* if (!this.model.storageAdapter) this.model.initFileStorage()
WithAdapter(m, p) == IF m.adapter = "none" THEN initFileStorage(m, p) ELSE m

\* NavigationApp.toggleFileStorage(enabled)
toggleFileStorage(m, p, on) ==
    IF ~on THEN [m EXCEPT !.enabled = FALSE]
    ELSE IF p.firefox \/ p.trea \/ p.fs
    THEN initFileStorageThen(m, p, <<"toggleFileStorage.then">>)
    ELSE m

\* NavigationApp.selectStorageFile()
selectStorageFile(m, p) ==
    IF UsesAdapter(m, p)
    THEN Bind(WithAdapter(m, p),
              LAMBDA m1 : StartOpenStorage(m1, <<"selectStorageFile.then">>))
    ELSE IF p.fs
    THEN Spawn(m, <<"openStorageFile:picker", "selectStorageFile.opened">>)
    ELSE m

\* NavigationApp.performManualBackup()
performManualBackup(m, p) ==
    IF UsesAdapter(m, p)
    THEN Bind(WithAdapter(m, p), LAMBDA m1 : StartBackupStorage(m1, << >>))
    ELSE m

\* NavigationApp.restoreFromManualBackup()
restoreFromManualBackup(m, p) ==
    IF UsesAdapter(m, p)
    THEN Bind(WithAdapter(m, p), LAMBDA m1 : StartRestoreStorage(m1, << >>))
    ELSE IF p.fs THEN StartRestoreFromBackup(m, << >>)
    ELSE m

-----------------------------------------------------------------------------
(* Calls of the navigation item mutators *)

ValidItem == [NoKeys EXCEPT !.name = S_Aa, !.url = S_urlA, !.icon = S_icon]
NoSchemeItem == [NoKeys EXCEPT !.name = S_Aa, !.url = S_noScheme]
AddArgs == {ValidItem, NoSchemeItem}

Rename == [NoKeys EXCEPT !.name = S_BB]
BadUrl == [NoKeys EXCEPT !.url = S_noScheme]
TakeId2 == [NoKeys EXCEPT !.id = Num(2)]
UpdateArgs == {Rename, BadUrl, TakeId2}

ItemIds == {Num(i) : i \in 1..(MaxItems + 1)}

Reverse(q) == [i \in 1..Len(q) |-> q[Len(q) + 1 - i]]
\* the orders a caller passes: the items reversed, or the first one twice
Orders(q) == IF Len(q) = 0 THEN {q} ELSE {Reverse(q), <<q[1], q[1]>>}

\* the timestamps of the in-memory document and of the localStorage copy
Timestamps == <<cur.timestamp, IF ls.k = "json" THEN ls.d.timestamp ELSE Undef>>

\* a turn begins: when no operation is in progress the timestamps are noted
TurnBegins == settled' = IF pending = << >> THEN Timestamps ELSE settled

\* operations are suspended, each an adapter save or a restoreStorage
SavesOrRestoreSuspended ==
    /\ pending # << >>
    /\ \A i \in 1..Len(pending) :
          \E j \in 1..Len(pending[i].stack) :
              pending[i].stack[j] \in {"saveStorage", "restoreStorage"}

\* a call named op with the arguments a, which reads no stored text
CalledWith(op, a) ==
    /\ calls < MaxCalls
    /\ Len(pending) < MaxPending
    /\ calls' = calls + 1
    /\ last' = op
    /\ args' = a
    /\ before' = cur
    /\ untrusted' = NoStore
    /\ TurnBegins
    /\ mutated' = (op = "setWallpaper" /\ SavesOrRestoreSuspended)

\* a call whose arguments no property reads
Called(op) == CalledWith(op, << >>)

AddNavigationItem ==
    /\ Called("addNavigationItem")
    /\ Len(cur.navigationItems.v) < MaxItems
    /\ \E item \in AddArgs :
        /\ Returns(addNavigationItem(M, item), "item")
        /\ addedIds' = Append(addedIds, NewItem(M, item).id)

\* 'Test', 'example.com' and 'https://example.com/'
S_Test == Str(<<84, 101, 115, 116>>)
S_example == Str(<<101, 120, 97, 109, 112, 108, 101, 46, 99, 111, 109>>)
S_httpsExample ==
    Str(<<104, 116, 116, 112, 115, 58, 47, 47>> \o CharsOf(S_example) \o <<47>>)
ExampleItem == [NoKeys EXCEPT !.name = S_Test, !.url = S_example]

\* addNavigationItem({name: 'Test', url: 'example.com'})
AddExampleItem ==
    /\ Len(cur.navigationItems.v) < MaxItems
    /\ CalledWith("addNavigationItem", <<ExampleItem>>)
    /\ Returns(addNavigationItem(M, ExampleItem), "item")
    /\ addedIds' = Append(addedIds, NewItem(M, ExampleItem).id)

\* saveSettings() called on the document as it is
SaveSettings ==
    /\ Called("saveSettings")
    /\ Bool(saveSettings(M, 1))
    /\ UNCHANGED addedIds

UpdateNavigationItem ==
    /\ \E id \in ItemIds, updates \in UpdateArgs :
        /\ CalledWith("updateNavigationItem", <<id, updates>>)
        /\ Bool(updateNavigationItem(M, id, updates))
    /\ UNCHANGED addedIds

DeleteNavigationItem ==
    /\ \E id \in ItemIds :
        /\ CalledWith("deleteNavigationItem", <<id>>)
        /\ Bool(deleteNavigationItem(M, id))
    /\ UNCHANGED addedIds

MoveNavigationItem ==
    /\ \E id \in ItemIds, direction \in {"up", "down"} :
        /\ CalledWith("moveNavigationItem", <<id, direction>>)
        /\ Bool(moveNavigationItem(M, id, direction))
    /\ UNCHANGED addedIds

ReorderNavigationItems ==
    /\ \E newOrder \in Orders(cur.navigationItems.v) :
        /\ CalledWith("reorderNavigationItems", <<newOrder>>)
        /\ Bool(reorderNavigationItems(M, newOrder))
    /\ UNCHANGED addedIds

-----------------------------------------------------------------------------
(* Calls of the other mutators, of export and import *)

NoLayoutKeys == Layout(K_OK, Absent, Absent, Absent)
LayoutArgs == {[NoLayoutKeys EXCEPT !.columns = Num(4)],
               [NoLayoutKeys EXCEPT !.columns = NaN]}
SearchArgs == {Search(K_OK, S_bing, Absent)}
GroupIds == {Num(1), Num(2)}
GroupItemArg == Item(Undef, S_Aa, S_urlA, Undef, Undef)

SetWallpaper ==
    /\ Called("setWallpaper")
    /\ Void(setWallpaper(M, S_img))
    /\ UNCHANGED addedIds

UpdateLayout ==
    /\ Called("updateLayout")
    /\ \E updates \in LayoutArgs : Void(updateLayout(M, updates))
    /\ UNCHANGED addedIds

UpdateSearchSettings ==
    /\ Called("updateSearchSettings")
    /\ \E updates \in SearchArgs : Bool(updateSearchSettings(M, updates))
    /\ UNCHANGED addedIds

SetSearchEngine ==
    /\ Called("setSearchEngine")
    /\ Void(setSearchEngine(M, S_bing))
    /\ UNCHANGED addedIds

SetSearchOpacity ==
    /\ Called("setSearchOpacity")
    /\ Void(setSearchOpacity(M, Num(5)))
    /\ UNCHANGED addedIds

SetTextColor ==
    /\ Called("setTextColor")
    /\ Void(setTextColor(M, S_red))
    /\ UNCHANGED addedIds

ResetToDefault ==
    /\ Called("resetToDefault")
    /\ Void(resetToDefault(M))
    /\ UNCHANGED addedIds

\* a shortcut is dropped on a group, or a group is chosen for it
MoveIntoToolGroup ==
    /\ \E groupId \in GroupIds, id \in ItemIds :
        /\ CalledWith("moveIntoToolGroup", <<id, groupId>>)
        /\ Void(moveIntoToolGroup(M, groupId, id))
    /\ UNCHANGED addedIds

\* a new group is created for a shortcut
CreateToolGroupFor ==
    /\ Len(cur.toolGroups.v) < MaxItems
    /\ \E id \in ItemIds :
        /\ CalledWith("createToolGroupFor", <<id>>)
        /\ Void(createToolGroupFor(M, S_newGroup, id))
    /\ UNCHANGED addedIds

MergeItemsIntoToolGroup ==
    /\ Len(cur.toolGroups.v) < MaxItems
    /\ \E itemId1 \in ItemIds, itemId2 \in ItemIds :
        /\ CalledWith("mergeItemsIntoToolGroup", <<itemId1, itemId2>>)
        /\ Void(mergeItemsIntoToolGroup(M, itemId1, itemId2))
    /\ UNCHANGED addedIds

AddToolGroup ==
    /\ Called("addToolGroup")
    /\ cur.toolGroups.k = K_OK
    /\ Len(cur.toolGroups.v) < MaxItems
    /\ Returns(addToolGroup(M, Absent), "group")
    /\ UNCHANGED addedIds

UpdateToolGroup ==
    /\ Called("updateToolGroup")
    /\ cur.toolGroups.k = K_OK
    /\ \E id \in GroupIds : Bool(updateToolGroup(M, id, S_BB))
    /\ UNCHANGED addedIds

DeleteToolGroup ==
    /\ Called("deleteToolGroup")
    /\ cur.toolGroups.k = K_OK
    /\ \E id \in GroupIds : Bool(deleteToolGroup(M, id))
    /\ UNCHANGED addedIds

AddItemToToolGroup ==
    /\ Called("addItemToToolGroup")
    /\ cur.toolGroups.k = K_OK
    /\ \A i \in 1..Len(cur.toolGroups.v) : Len(cur.toolGroups.v[i].items) < MaxItems
    /\ \E groupId \in GroupIds : Bool(addItemToToolGroup(M, groupId, GroupItemArg))
    /\ UNCHANGED addedIds

RemoveItemFromToolGroup ==
    /\ Called("removeItemFromToolGroup")
    /\ cur.toolGroups.k = K_OK
    /\ \E groupId \in GroupIds : Bool(removeItemFromToolGroup(M, groupId, Num(1)))
    /\ UNCHANGED addedIds

\* a settings file written by hand: its one shortcut has no id
HandWrittenDoc ==
    [defaultSettings(1) EXCEPT
        !.navigationItems = Arr(K_OK, <<Item(Undef, S_G, S_urlG, Undef, Undef)>>)]
\* the backup saveToFile() wrote after addNavigationItem({name: 'Aa',
\* url: 'a.c'}): the checksum matches a document that does not validate
UnvalidatedDoc ==
    LET d == [defaultSettings(1) EXCEPT
                !.navigationItems =
                    Arr(K_OK, Append(DefaultItems,
                                     Item(Num(3), S_Aa, S_noScheme, Undef, Undef)))]
    IN  [d EXCEPT !.checksum = generateChecksum(d)]

\* a file with nothing but shortcuts, one of them without a name
PartialDoc ==
    [defaultSettings(1) EXCEPT
        !.version = Undef, !.timestamp = Undef, !.checksum = Undef,
        !.wallpaper = Undef, !.textColor = Undef,
        !.navigationItems = Arr(K_OK, <<Item(Num(1), Undef, S_urlG, Undef, Undef)>>),
        !.toolGroups = Arr(K_UNDEF, << >>),
        !.layout = Layout(K_UNDEF, Undef, Undef, Undef),
        !.search = Search(K_UNDEF, Undef, Undef)]

\* the text 'null'
NullDoc == [defaultSettings(0) EXCEPT !.k = K_UNDEF]

ImportInputs ==
    FileInputs \cup {Stored(HandWrittenDoc), Stored(UnvalidatedDoc),
                     Stored(PartialDoc), Stored(NullDoc)}

ImportSettings ==
    /\ \E data \in ImportInputs :
        /\ CalledWith("importSettings", <<data>>)
        /\ Bool(importSettings(M, data))
    /\ UNCHANGED addedIds

\* the text exportSettings() hands out is given back to importSettings()
ExportThenImport ==
    /\ Called("exportSettings;importSettings")
    /\ Bool(importSettings(M, exportSettings(M)))
    /\ UNCHANGED addedIds

-----------------------------------------------------------------------------
(* Calls and steps of the storage operations *)

\* the promise a call returned, or the value it settled with
Settled(m) ==
    IF ~m.fin THEN "pending" ELSE IF m.exc THEN "rejected" ELSE RetOf(m.ret)
Async(called) == \E m \in {called} : Commit(m) /\ ret' = Settled(m)

InitFileStorage ==
    /\ Called("initFileStorage")
    /\ Async(initFileStorage(M, probes))
    /\ UNCHANGED addedIds

\* toggleFileStorage(false)
DisableFileStorage ==
    /\ Called("toggleFileStorage")
    /\ enabled
    /\ Void([M EXCEPT !.enabled = FALSE])
    /\ UNCHANGED addedIds

AdapterOpenStorage ==
    /\ Called("openStorage")
    /\ adapter # "none"
    /\ Async(StartOpenStorage(M, << >>))
    /\ UNCHANGED addedIds

AdapterSaveStorage ==
    /\ Called("saveStorage")
    /\ adapter # "none"
    /\ Async(StartSaveStorage(M, << >>, 1))
    /\ UNCHANGED addedIds

CreateStorageFile ==
    /\ Called("createStorageFile")
    /\ probes.fs
    /\ Async(createStorageFile(M))
    /\ UNCHANGED addedIds

SaveToFile ==
    /\ Called("saveToFile")
    /\ probes.fs
    /\ Async(StartSaveToFile(M, << >>))
    /\ UNCHANGED addedIds

\* the operation at position i of pending continues after the await f
Awaits(i, f) == Head(pending[i].stack) = f
Rest(i) == [M EXCEPT !.pending = RemoveAt(pending, i)]
Then(i) == Tail(pending[i].stack)
\* the step f, which received a
SteppedWith(f, a) ==
    /\ last' = f
    /\ args' = a
    /\ before' = cur
    /\ TurnBegins
    /\ UNCHANGED <<calls, addedIds, mutated>>
Stepped(f) == SteppedWith(f, << >>)

OpenStorageFilePicker ==
    \E i \in 1..Len(pending) :
        /\ Awaits(i, "openStorageFile:picker")
        /\ \E f \in UserFiles(M) \cup {NoStore} :
              Async(openStorageFile_picker(Rest(i), Then(i), f))
        /\ Stepped("openStorageFile:picker")
        /\ untrusted' = NoStore

CreateStorageFilePicker ==
    \E i \in 1..Len(pending) :
        /\ Awaits(i, "createStorageFile:picker")
        /\ \E picked \in BOOLEAN, fresh \in BOOLEAN :
              Async(createStorageFile_picker(Rest(i), Then(i), picked, fresh))
        /\ Stepped("createStorageFile:picker")
        /\ untrusted' = NoStore

LoadFromFileGetFile ==
    \E i \in 1..Len(pending) :
        /\ Awaits(i, "loadFromFile:getFile")
        /\ Async(loadFromFile_getFile(Rest(i), Then(i)))
        /\ Stepped("loadFromFile:getFile")
        /\ untrusted' = Mismatching(file)

SaveToFileCreateWritable ==
    \E i \in 1..Len(pending) :
        /\ Awaits(i, "saveToFile:createWritable")
        /\ \E ok \in BOOLEAN : Async(saveToFile_createWritable(Rest(i), Then(i), ok))
        /\ Stepped("saveToFile:createWritable")
        /\ untrusted' = NoStore

SaveToFileClose ==
    \E i \in 1..Len(pending) :
        /\ Awaits(i, "saveToFile:close")
        /\ Async(saveToFile_close(Rest(i), Then(i), pending[i].buf))
        /\ Stepped("saveToFile:close")
        /\ untrusted' = NoStore

BackupFilePicker ==
    \E i \in 1..Len(pending) :
        /\ Awaits(i, "backupFile:picker")
        /\ \E picked \in BOOLEAN : Async(backupFile_picker(Rest(i), Then(i), picked))
        /\ Stepped("backupFile:picker")
        /\ untrusted' = NoStore

BackupFileCreateWritable ==
    \E i \in 1..Len(pending) :
        /\ Awaits(i, "backupFile:createWritable")
        /\ Async(backupFile_createWritable(Rest(i), Then(i)))
        /\ Stepped("backupFile:createWritable")
        /\ untrusted' = NoStore

BackupFileClose ==
    \E i \in 1..Len(pending) :
        /\ Awaits(i, "backupFile:close")
        /\ Async(backupFile_close(Rest(i), Then(i), pending[i].buf))
        /\ Stepped("backupFile:close")
        /\ untrusted' = NoStore

RestoreFromBackupPicker ==
    \E i \in 1..Len(pending) :
        /\ Awaits(i, "restoreFromBackup:picker")
        /\ \E f \in UserFiles(M) \cup {NoStore} :
              /\ Async(restoreFromBackup_picker(Rest(i), Then(i), f))
              /\ untrusted' = Mismatching(f)
              /\ SteppedWith("restoreFromBackup:picker", <<f, Then(i)>>)

FfOpenPicker ==
    \E i \in 1..Len(pending) :
        /\ Awaits(i, "ffOpen:picker")
        /\ \E f \in UserFiles(M) \cup {NoStore} :
              /\ Async(ffOpen_picker(Rest(i), Then(i), f))
              /\ untrusted' = Mismatching(f)
              /\ SteppedWith("ffOpen:picker", <<f, Then(i)>>)

IdbOpenGet ==
    \E i \in 1..Len(pending) :
        /\ Awaits(i, "idbOpen:get")
        /\ \E ok \in BOOLEAN :
              /\ Async(idbOpen_get(Rest(i), Then(i), ok))
              /\ untrusted' = IF ok THEN Mismatching(idb) ELSE NoStore
              /\ SteppedWith("idbOpen:get", <<ok>>)

IdbSavePut ==
    \E i \in 1..Len(pending) :
        /\ Awaits(i, "idbSave:put")
        /\ \E ok \in BOOLEAN : Async(idbSave_put(Rest(i), Then(i), ok))
        /\ Stepped("idbSave:put")
        /\ untrusted' = NoStore

IdbSaveComplete ==
    \E i \in 1..Len(pending) :
        /\ Awaits(i, "idbSave:complete")
        /\ \E ok \in BOOLEAN :
              Async(idbSave_complete(Rest(i), Then(i), pending[i].buf, ok))
        /\ Stepped("idbSave:complete")
        /\ untrusted' = NoStore

AdapterBackupStorage ==
    /\ Called("backupStorage")
    /\ adapter # "none"
    /\ Async(StartBackupStorage(M, << >>))
    /\ UNCHANGED addedIds

AdapterRestoreStorage ==
    /\ Called("restoreStorage")
    /\ adapter # "none"
    /\ Async(StartRestoreStorage(M, << >>))
    /\ UNCHANGED addedIds

IdbBackupGet ==
    \E i \in 1..Len(pending) :
        /\ Awaits(i, "idbBackup:get")
        /\ \E ok \in BOOLEAN : Async(idbBackup_get(Rest(i), Then(i), ok))
        /\ Stepped("idbBackup:get")
        /\ untrusted' = NoStore

LsRestoreChange ==
    \E i \in 1..Len(pending) :
        /\ Awaits(i, "lsRestore:change")
        /\ \E f \in UserFiles(M) \cup {NoStore} :
              /\ Async(lsRestore_change(Rest(i), Then(i), f))
              /\ untrusted' = Mismatching(f)
              /\ SteppedWith("lsRestore:change", <<f, Then(i)>>)

IdbRestoreChange ==
    \E i \in 1..Len(pending) :
        /\ Awaits(i, "idbRestore:change")
        /\ \E f \in UserFiles(M) \cup {NoStore} :
              /\ Async(idbRestore_change(Rest(i), Then(i), f))
              /\ untrusted' = Mismatching(f)
              /\ SteppedWith("idbRestore:change", <<f, Then(i)>>)

\* the awaits that end with the change event of a hidden file input
FileInputAwaits == {"ffOpen:picker", "lsRestore:change", "idbRestore:change"}

\* the user closes the file dialog of a hidden file input without a
\* choice: no change event is delivered, and the handlers that would
\* settle the promise are never called
DismissFileInput ==
    \E i \in 1..Len(pending) :
        /\ Head(pending[i].stack) \in FileInputAwaits
        /\ Async(Spawn(Rest(i), <<"fileInput:dismissed">> \o Then(i)))
        /\ untrusted' = NoStore
        /\ Stepped("fileInput:dismissed")

IdbRestorePut ==
    \E i \in 1..Len(pending) :
        /\ Awaits(i, "idbRestore:put")
        /\ \E ok \in BOOLEAN :
              Async(idbRestore_put(Rest(i), Then(i), pending[i].buf, ok))
        /\ SteppedWith("idbRestore:put", <<pending[i].buf, Then(i)>>)
        /\ untrusted' = NoStore

\* the handlers of the storage controls of the settings panel
ToggleFileStorage ==
    /\ \E on \in BOOLEAN :
        /\ CalledWith("toggleFileStorage", <<on>>)
        /\ Void(toggleFileStorage(M, probes, on))
    /\ UNCHANGED addedIds

SelectStorageFile ==
    /\ Called("selectStorageFile")
    /\ Void(selectStorageFile(M, probes))
    /\ UNCHANGED addedIds

PerformManualBackup ==
    /\ Called("performManualBackup")
    /\ Void(performManualBackup(M, probes))
    /\ UNCHANGED addedIds

RestoreFromManualBackup ==
    /\ Called("restoreFromManualBackup")
    /\ Void(restoreFromManualBackup(M, probes))
    /\ UNCHANGED addedIds

\* the page is loaded again: a new model is constructed over what the
\* browser kept, and what was suspended is gone
Reload ==
    /\ calls < MaxCalls
    /\ calls' = calls + 1
    /\ \E m \in {Constructed(now, ls)} :
           /\ cur' = m.cur /\ def' = m.def /\ alias' = m.alias /\ ls' = m.ls
           /\ log' = m.log
    /\ enabled' = FALSE
    /\ adapter' = "none"
    /\ fileHandle' = FALSE
    /\ pending' = << >>
    /\ ret' = "undefined"
    /\ last' = "constructor"
    /\ before' = cur
    /\ TurnBegins
    /\ mutated' = FALSE
    /\ untrusted' = Mismatching(ls)
    /\ args' = << >>
    /\ idbConn' = NoConnection
    /\ menu' = NoMenu
    /\ UNCHANGED <<now, probes, domOk, file, backup, idb, download, addedIds,
                   host, quota>>

-----------------------------------------------------------------------------
(* The repairer applied to the documents a load path hands it *)

MalformedItem == Item(Num(1), S_G, S_noScheme, Undef, Undef)
RepairItems ==
    { Arr(K_OK, DefaultItems), Arr(K_UNDEF, << >>),
      Arr(K_OK, <<MalformedItem>>),
      Arr(K_OK, <<DefaultItems[1], [DefaultItems[2] EXCEPT !.id = Num(1)]>>) }
RepairLayouts ==
    { DefaultLayout, Layout(K_UNDEF, Undef, Undef, Undef),
      Layout(K_OK, Undef, Num(10), Num(48)) }
RepairSearches == { DefaultSearch, Search(K_UNDEF, Undef, Undef) }

\* documents as JSON.parse returns them: any field may be missing
RepairInputs ==
    { [defaultSettings(1) EXCEPT !.version = v, !.timestamp = t, !.checksum = c,
                                 !.navigationItems = n, !.layout = l,
                                 !.search = s, !.textColor = x] :
        v \in {S_version, Undef}, t \in {Num(1), Undef}, c \in {S_version, Undef},
        n \in RepairItems, l \in RepairLayouts, s \in RepairSearches,
        x \in {S_red, Undef} }
    \cup { [defaultSettings(1) EXCEPT !.k = K_UNDEF] }

\* this.currentSettings = data has run, ensureSettingsStructure() has not
InitRepair ==
    /\ Browser
    /\ ~probes.fs /\ ~probes.idb /\ ~probes.firefox
    /\ cur \in RepairInputs
    /\ def = defaultSettings(1)
    /\ alias = NoAlias
    /\ ls = Constructed(1, NoStore).ls
    /\ log = << >>
    /\ last = "load"

EnsureSettingsStructure ==
    /\ Called("ensureSettingsStructure")
    /\ Void(ensureSettingsStructure(M, 1))
    /\ UNCHANGED addedIds

NextRepair ==
    \/ EnsureSettingsStructure
    \/ Tick

SpecRepair == InitRepair /\ [][NextRepair]_vars

-----------------------------------------------------------------------------
(* The validator on the documents JSON.parse can return *)

\* objects standing where an item is expected, each field of any type
ValidateItems ==
    { Item(id, name, url, icon, tg) :
        id \in {Undef, Num(1), NaN, Null, S_G},
        name \in {S_G, S_empty, Undef, Num(1)},
        url \in {S_urlG, S_noScheme, S_empty, Undef},
        icon \in {Undef, S_icon, Num(1)},
        tg \in {Undef, Null, Num(1), S_G} }

\* two items, with and without ids, equal and different
ValidatePairs ==
    { <<Item(a, S_G, S_urlG, Undef, Undef), Item(b, S_H, S_urlH, S_icon, Null)>> :
        a \in {Undef, Num(1), NaN}, b \in {Undef, Num(1), Num(2), NaN} }

Kinds == {K_OK, K_UNDEF, K_OTHER}

ValidateInputs ==
    { [defaultSettings(1) EXCEPT !.navigationItems = Arr(K_OK, <<it>>)] :
        it \in ValidateItems }
    \cup { [defaultSettings(1) EXCEPT !.navigationItems = Arr(K_OK, v)] :
             v \in ValidatePairs }
    \cup { [defaultSettings(1) EXCEPT !.k = k, !.navigationItems = Arr(n, << >>),
                                      !.toolGroups = Arr(g, << >>),
                                      !.layout.k = l, !.search.k = s] :
             k \in {K_OK, K_UNDEF}, n \in Kinds,
             g \in Kinds, l \in Kinds, s \in Kinds }

ValidateSettings ==
    /\ calls < MaxOps
    /\ \E settings \in ValidateInputs :
        /\ CalledWith("validateSettings", <<settings>>)
        /\ Returns(M, RetOf(validateSettings(settings)))
    /\ UNCHANGED addedIds

-----------------------------------------------------------------------------
(* The checksum of a document that was edited after it was saved *)

\* documents as saveSettings() leaves them, checksum included
SavedDocs ==
    { StampDoc([defaultSettings(1) EXCEPT
                    !.navigationItems =
                        Arr(K_OK, <<Item(Num(1), name, S_urlG, S_icon, Undef)>>),
                    !.wallpaper = wallpaper], t) :
        name \in {S_G, S_Aa, S_BB}, wallpaper \in {S_empty, S_img}, t \in 1..2 }

\* verifyChecksum(data), data being the saved document with the content of
\* another one and the checksum it was saved with
VerifyChecksum ==
    /\ calls < MaxOps
    /\ \E saved \in SavedDocs, edited \in SavedDocs :
        \E data \in {[edited EXCEPT !.checksum = saved.checksum]} :
            /\ CalledWith("verifyChecksum", <<saved, data>>)
            /\ Returns(M, RetOf(verifyChecksum(data)))
    /\ UNCHANGED addedIds

-----------------------------------------------------------------------------
(* The adapter factory on every host *)

Typeofs == {"function", "undefined"}
UserAgents ==
    {UserAgent(FALSE, has) :
        has \in {UA_Firefox, UA_Chrome, UA_Edge, UA_Safari, UA_Trea, {}}}
    \cup {UserAgent(TRUE, {})}

\* window and navigator in every combination the probes can tell apart
Hosts ==
    [showSaveFilePicker : Typeofs, showOpenFilePicker : Typeofs,
     FileSystemWritableFileStream : Typeofs \cup {"throws"},
     indexedDB : {"object", "undefined", "throws"},
     userAgent : UserAgents,
     vendor : {"", "google", "mozilla", "throws"},
     mozInnerScreenX : BOOLEAN]

InitProbe ==
    /\ host \in Hosts
    /\ probes = Answers(host)
    /\ domOk = TRUE
    /\ quota = FALSE
    /\ Blank
    /\ FirstVisit

\* this.storageAdapter = this.createStorageAdapter()
CreateStorageAdapter ==
    /\ Called("createStorageAdapter")
    /\ adapter = "none"
    /\ Returns([M EXCEPT !.adapter = StorageAdapterFor(host)], "adapter")
    /\ UNCHANGED addedIds

NextProbe ==
    \/ CreateStorageAdapter
    \/ Tick

SpecProbe == InitProbe /\ [][NextProbe]_vars

-----------------------------------------------------------------------------
(* Specifications *)

\* the mutators that persist what they changed
Mutator ==
    \/ AddNavigationItem
    \/ UpdateNavigationItem
    \/ DeleteNavigationItem
    \/ MoveNavigationItem
    \/ ReorderNavigationItems
    \/ SetWallpaper
    \/ UpdateLayout
    \/ UpdateSearchSettings
    \/ SetSearchEngine
    \/ SetSearchOpacity
    \/ SetTextColor
    \/ AddToolGroup
    \/ UpdateToolGroup
    \/ DeleteToolGroup
    \/ AddItemToToolGroup
    \/ RemoveItemFromToolGroup

Step ==
    \/ OpenStorageFilePicker
    \/ CreateStorageFilePicker
    \/ LoadFromFileGetFile
    \/ SaveToFileCreateWritable
    \/ SaveToFileClose
    \/ BackupFilePicker
    \/ BackupFileCreateWritable
    \/ BackupFileClose
    \/ RestoreFromBackupPicker
    \/ FfOpenPicker
    \/ IdbOpenGet
    \/ IdbSavePut
    \/ IdbSaveComplete

\* the storage system: every adapter, the file operations, one mutator
Next ==
    \/ Tick
    \/ calls < MaxOps /\ Reload
    \/ calls < MaxOps /\ InitFileStorage
    \/ calls < MaxOps /\ AdapterOpenStorage
    \/ calls < MaxOps /\ AdapterSaveStorage
    \/ calls < MaxOps /\ CreateStorageFile
    \/ calls < MaxOps /\ SaveToFile
    \/ calls < MaxOps /\ SetWallpaper
    \/ Step

Spec == Init /\ [][Next]_vars

\* file storage is switched on, then the mutators run
NextOrder ==
    \/ calls < MaxOps /\ adapter = "none" /\ InitFileStorage
    \/ calls < MaxOps /\ enabled /\ Mutator
    \/ OpenStorageFilePicker
    \/ FfOpenPicker
    \/ IdbSavePut
    \/ IdbSaveComplete

SpecOrder == Init /\ [][NextOrder]_vars

\* a browser without any storage backend beyond localStorage
InitItems == Init /\ ~probes.fs /\ ~probes.idb /\ ~probes.firefox

NextMutators ==
    \/ Mutator
    \/ ResetToDefault

SpecMutators == InitItems /\ [][NextMutators]_vars

SpecValidate == InitItems /\ [][ValidateSettings]_vars

SpecChecksum == InitItems /\ [][VerifyChecksum]_vars

\* a browser whose richest backend is IndexedDB, over page loads
InitIdb == Init /\ ~probes.fs /\ probes.idb

NextIdb ==
    \/ Tick
    \/ Reload
    \/ InitFileStorage
    \/ AdapterOpenStorage
    \/ SetWallpaper
    \/ IdbOpenGet
    \/ IdbSavePut
    \/ IdbSaveComplete

SpecIdb == InitIdb /\ [][NextIdb]_vars

NextItems ==
    \/ AddNavigationItem
    \/ UpdateNavigationItem
    \/ DeleteNavigationItem
    \/ MoveNavigationItem
    \/ ReorderNavigationItems

SpecItems == InitItems /\ [][NextItems]_vars

NextAddDelete ==
    \/ AddNavigationItem
    \/ DeleteNavigationItem
    \/ Tick

SpecAddDelete == InitItems /\ [][NextAddDelete]_vars

\* deleting shortcuts while tool groups hold entries of their own
NextDelete ==
    \/ AddNavigationItem
    \/ DeleteNavigationItem
    \/ AddToolGroup
    \/ AddItemToToolGroup
    \/ SetWallpaper
    \/ Tick

SpecDelete == InitItems /\ [][NextDelete]_vars

\* the flows that move shortcuts into tool groups
NextGroups ==
    \/ AddToolGroup
    \/ MoveIntoToolGroup
    \/ CreateToolGroupFor
    \/ MergeItemsIntoToolGroup
    \/ Tick

SpecGroups == InitItems /\ [][NextGroups]_vars

\* a shortcut typed without its scheme, among moves and deletions
NextExample ==
    \/ AddExampleItem
    \/ DeleteNavigationItem
    \/ MoveNavigationItem
    \/ Tick

SpecExample == InitItems /\ [][NextExample]_vars

\* a browser with localStorage alone, whose localStorage may be full
InitQuota ==
    /\ probes = [fs |-> FALSE, idb |-> FALSE, firefox |-> FALSE, trea |-> FALSE]
    /\ host = HostOf(probes)
    /\ domOk = TRUE
    /\ quota \in BOOLEAN
    /\ Blank
    /\ FirstVisit

\* the mutators whose result their caller reads
NextQuota ==
    \/ AddNavigationItem
    \/ UpdateNavigationItem
    \/ DeleteNavigationItem
    \/ MoveNavigationItem
    \/ ReorderNavigationItems
    \/ AddToolGroup
    \/ UpdateToolGroup
    \/ DeleteToolGroup
    \/ AddItemToToolGroup
    \/ RemoveItemFromToolGroup
    \/ UpdateSearchSettings

SpecQuota == InitQuota /\ [][NextQuota]_vars

\* each browser, with a DOM that works or throws, and with or without a
\* backup file an earlier session left on the disk
InitAdapters ==
    /\ probes \in ProbeSets
    /\ host = HostOf(probes)
    /\ domOk \in BOOLEAN
    /\ quota = FALSE
    /\ backup \in {NoStore, Stored(UnvalidatedDoc)}
    /\ Unstarted
    /\ FirstVisit

\* the user waits for one operation to end before starting the next
Idle == calls < MaxOps /\ pending = << >>

\* the four operations of the adapter initFileStorage() constructed
NextAdapters ==
    \/ Tick
    \/ Idle /\ InitFileStorage
    \/ Idle /\ AdapterOpenStorage
    \/ Idle /\ AdapterSaveStorage
    \/ Idle /\ AdapterBackupStorage
    \/ Idle /\ AdapterRestoreStorage
    \/ OpenStorageFilePicker
    \/ LoadFromFileGetFile
    \/ SaveToFileCreateWritable
    \/ SaveToFileClose
    \/ BackupFilePicker
    \/ BackupFileCreateWritable
    \/ BackupFileClose
    \/ RestoreFromBackupPicker
    \/ FfOpenPicker
    \/ IdbOpenGet
    \/ IdbSavePut
    \/ IdbSaveComplete
    \/ IdbBackupGet
    \/ LsRestoreChange
    \/ IdbRestoreChange
    \/ IdbRestorePut

SpecAdapters == InitAdapters /\ [][NextAdapters]_vars

\* one session at the storage controls of the settings panel
NextSession ==
    \/ Idle /\ ToggleFileStorage
    \/ Idle /\ SelectStorageFile
    \/ Idle /\ PerformManualBackup
    \/ Idle /\ RestoreFromManualBackup
    \/ OpenStorageFilePicker
    \/ LoadFromFileGetFile
    \/ SaveToFileCreateWritable
    \/ SaveToFileClose
    \/ BackupFilePicker
    \/ BackupFileCreateWritable
    \/ BackupFileClose
    \/ RestoreFromBackupPicker
    \/ FfOpenPicker
    \/ IdbOpenGet
    \/ IdbSavePut
    \/ IdbSaveComplete
    \/ IdbBackupGet
    \/ IdbRestoreChange
    \/ IdbRestorePut

SpecSession == Init /\ [][NextSession]_vars

\* the operations that write the timestamp, one at a time, on every
\* browser of the model
NextClock ==
    \/ Tick
    \/ Idle /\ SetWallpaper
    \/ Idle /\ ImportSettings
    \/ Idle /\ ResetToDefault
    \/ Idle /\ InitFileStorage
    \/ Idle /\ AdapterOpenStorage
    \/ Idle /\ AdapterRestoreStorage
    \/ OpenStorageFilePicker
    \/ LoadFromFileGetFile
    \/ SaveToFileCreateWritable
    \/ SaveToFileClose
    \/ BackupFilePicker
    \/ BackupFileCreateWritable
    \/ BackupFileClose
    \/ RestoreFromBackupPicker
    \/ FfOpenPicker
    \/ IdbOpenGet
    \/ IdbSavePut
    \/ IdbSaveComplete
    \/ LsRestoreChange
    \/ IdbRestoreChange
    \/ IdbRestorePut

SpecClock == Init /\ [][NextClock]_vars

\* a mutator called while the operations of the IndexedDB adapter wait
\* for their transactions
NextInterleave ==
    \/ InitFileStorage
    \/ AdapterRestoreStorage
    \/ SetWallpaper
    \/ IdbOpenGet
    \/ IdbRestoreChange
    \/ IdbRestorePut
    \/ IdbSavePut
    \/ IdbSaveComplete

SpecInterleave == InitIdb /\ [][NextInterleave]_vars

\* saveSettings() on valid and invalid documents, with and without an
\* adapter that mirrors the save
InitSave == Init /\ ~probes.fs

NextSave ==
    \/ InitFileStorage
    \/ UpdateNavigationItem
    \/ SaveSettings
    \/ FfOpenPicker
    \/ IdbOpenGet
    \/ IdbSavePut
    \/ IdbSaveComplete

SpecSave == InitSave /\ [][NextSave]_vars

\* what the browser and the user do to an operation that waits
PickerSteps ==
    \/ OpenStorageFilePicker
    \/ LoadFromFileGetFile
    \/ SaveToFileCreateWritable
    \/ SaveToFileClose
    \/ BackupFilePicker
    \/ BackupFileCreateWritable
    \/ BackupFileClose
    \/ RestoreFromBackupPicker
    \/ FfOpenPicker
    \/ IdbOpenGet
    \/ IdbSavePut
    \/ IdbSaveComplete
    \/ LsRestoreChange
    \/ IdbRestoreChange
    \/ IdbRestorePut
    \/ DismissFileInput

\* openStorage and restoreStorage of each adapter, one call at a time
NextPicker ==
    \/ Tick
    \/ Idle /\ InitFileStorage
    \/ Idle /\ AdapterOpenStorage
    \/ Idle /\ AdapterRestoreStorage
    \/ PickerSteps

\* every dialog is closed and every event the browser owes is delivered
SpecPicker == Init /\ [][NextPicker]_vars /\ WF_vars(PickerSteps)

\* the settings panel and one mutator on the Firefox browsers of the
\* model, the user waiting for nothing
InitPanel == Init /\ probes.firefox

NextPanel ==
    \/ calls < MaxOps /\ ToggleFileStorage
    \/ calls < MaxOps /\ SelectStorageFile
    \/ calls < MaxOps /\ SetWallpaper
    \/ FfOpenPicker
    \/ IdbOpenGet
    \/ IdbSavePut
    \/ IdbSaveComplete

SpecPanel == InitPanel /\ [][NextPanel]_vars

NextRoundTrip ==
    \/ ImportSettings
    \/ AddNavigationItem
    \/ DeleteNavigationItem
    \/ SetWallpaper
    \/ ExportThenImport

SpecRoundTrip == InitItems /\ [][NextRoundTrip]_vars

-----------------------------------------------------------------------------
(* Ordering and freshness of the copies *)

MutatorNames ==
    {"addNavigationItem", "updateNavigationItem", "deleteNavigationItem",
     "moveNavigationItem", "reorderNavigationItems", "setWallpaper",
     "updateLayout", "updateSearchSettings", "setSearchEngine",
     "setSearchOpacity", "setTextColor", "addToolGroup", "updateToolGroup",
     "deleteToolGroup", "addItemToToolGroup", "removeItemFromToolGroup"}

\* C1: in a mutator call made while file storage is enabled, every start
\* of the adapter's saveStorage comes right after the write of the same
\* document to localStorage
C1_LocalWriteBeforeAdapterSave ==
    (last \in MutatorNames /\ enabled) =>
        \A i \in 1..Len(log) :
            log[i] = "saveStorage" => (i > 1 /\ log[i - 1] = "setItem")

\* a mutator has persisted with file storage enabled and the adapter's
\* save was started
C1_Witness ==
    /\ last \in MutatorNames
    /\ enabled
    /\ \E i \in 1..Len(log) : log[i] = "saveStorage"
    /\ ls = Stored(JsonRoundTrip(cur))

HasTimestamp(f) == f.k = "json" /\ f.d.timestamp[1] = T_NUM

\* C2: in every reachable state the timestamp of the localStorage copy is
\* greater than or equal to the timestamp of the IndexedDB record and of
\* the storage file
C2_LocalStorageFreshest ==
    /\ HasTimestamp(idb) =>
            (HasTimestamp(ls) /\ ls.d.timestamp[2] >= idb.d.timestamp[2])
    /\ HasTimestamp(file) =>
            (HasTimestamp(ls) /\ ls.d.timestamp[2] >= file.d.timestamp[2])

-----------------------------------------------------------------------------
(* Checksums *)

\* C3: whenever a mutator has returned, the checksum of the in-memory
\* document is generateChecksum of that document
C3_ChecksumAfterMutator ==
    last \in MutatorNames => cur.checksum = generateChecksum(cur)

\* the copy the adapter's saveStorage writes besides localStorage
Persisted ==
    CASE adapter = "fs" -> file
      [] adapter = "idb" -> idb
      [] adapter = "ff" -> download
      [] OTHER -> ls

\* C4: right after an adapter's saveStorage has completed, verifyChecksum
\* accepts the in-memory document, the localStorage entry and the copy the
\* adapter wrote
C4_SavedCopiesVerify ==
    (\E i \in 1..Len(log) : log[i] = "saveStorage:true") =>
        /\ verifyChecksum(cur)
        /\ ls.k = "json" /\ verifyChecksum(ls.d)
        /\ Persisted.k = "json" => verifyChecksum(Persisted.d)

\* two documents agree in every field but timestamp and checksum
SameContent(a, b) ==
    [a EXCEPT !.timestamp = Undef, !.checksum = Undef]
        = [b EXCEPT !.timestamp = Undef, !.checksum = Undef]

\* C5: when a turn has read a stored document whose checksum does not
\* match its content, that content is not what the in-memory document
\* became
C5_MismatchNeverAdopted ==
    (untrusted.k = "json" /\ ~SameContent(before, untrusted.d)) =>
        ~SameContent(cur, untrusted.d)

-----------------------------------------------------------------------------
(* Identity of navigation items *)

\* C6: in every state reached by the navigation item mutators, the ids of
\* the items in navigationItems are pairwise distinct
C6_IdsPairwiseDistinct ==
    \A i, j \in 1..Len(cur.navigationItems.v) :
        i # j => cur.navigationItems.v[i].id # cur.navigationItems.v[j].id

\* C7: the ids returned by successive addNavigationItem calls, with
\* deleteNavigationItem calls in between, are strictly increasing, so no
\* id is handed out twice
C7_AddedIdsIncrease ==
    \A i, j \in 1..Len(addedIds) :
        i < j => /\ addedIds[i][1] = T_NUM
                 /\ addedIds[j][1] = T_NUM
                 /\ addedIds[i][2] < addedIds[j][2]

-----------------------------------------------------------------------------
(* Repair and round trip *)

\* C8: after ensureSettingsStructure has run on a document, validateSettings
\* accepts the result
C8_RepairedIsValid ==
    last = "ensureSettingsStructure" => validateSettings(cur)

\* C9: ensureSettingsStructure applied to a document it has repaired
\* already changes no field and saves nothing
C9_RepairIdempotent ==
    (last = "ensureSettingsStructure" /\ calls >= 2) =>
        /\ cur = before
        /\ log = << >>

\* the second repair of a document the first repair had to change
C9_Witness ==
    /\ last = "ensureSettingsStructure"
    /\ calls = 2
    /\ cur \notin RepairInputs
    /\ cur = before

\* C10: importSettings of what exportSettings wrote for a valid document
\* returns true and leaves a valid document equal to it in every field but
\* timestamp and checksum
C10_ExportImportRoundTrip ==
    (last = "exportSettings;importSettings" /\ validateSettings(before)) =>
        /\ ret = "true"
        /\ validateSettings(cur)
        /\ SameContent(cur, before)

\* a probe counts as supported when it returns true; one that throws counts
\* as unsupported
FirefoxSupported == ~isFirefoxThrows(host) /\ isFirefox(host)

\* C14: createStorageAdapter returns the file system adapter if that API is
\* supported, else the IndexedDB adapter if IndexedDB is supported, else the
\* Firefox adapter if isFirefox or isTreaBrowser, else the localStorage
\* adapter; a probe that throws counts as unsupported and an adapter is
\* returned all the same
C14_AdapterByPriority ==
    last = "createStorageAdapter" =>
        adapter = IF isFileSystemAPISupported(host) THEN "fs"
                  ELSE IF isIndexedDBSupported(host) THEN "idb"
                  ELSE IF FirefoxSupported \/ isTreaBrowser(host) THEN "ff"
                  ELSE "ls"

\* the adapter was chosen on a host where reading the file system API,
\* IndexedDB and the user agent all throw
C14_Witness ==
    /\ last = "createStorageAdapter"
    /\ host.FileSystemWritableFileStream = "throws"
    /\ host.indexedDB = "throws"
    /\ isFirefoxThrows(host)
    /\ adapter = "ls"

\* the position in the document before the call of the item the call names
Target == FindIndex(before.navigationItems.v, args[1])

\* the updates carry a url that is no absolute URL, or an id another item
\* of the document before the call holds
UpdateBreaksDocument ==
    /\ Target # 0
    /\ \/ IsString(args[2].url) /\ ~ParsesAsURL(CharsOf(args[2].url))
       \/ /\ args[2].id # Absent
          /\ \E j \in 1..Len(before.navigationItems.v) :
                j # Target /\ before.navigationItems.v[j].id = args[2].id

\* C16: updateNavigationItem with a url that is no absolute URL or with the
\* id of another item, and reorderNavigationItems with a sequence holding a
\* malformed item or a duplicate id, leave the in-memory document as it was
\* and report failure
C16_InvalidMutationRejected ==
    /\ (last = "updateNavigationItem" /\ UpdateBreaksDocument) =>
            (cur = before /\ ret = "false")
    /\ (last = "reorderNavigationItems"
            /\ ~validateNavigationItems(Arr(K_OK, args[1]))) =>
            (cur = before /\ ret = "false")

\* the sequence of shortcuts before and after the call
OldItems == before.navigationItems.v
NewItems == cur.navigationItems.v

\* C19: moveNavigationItem(id, 'up') on the first item returns false, leaves
\* the sequence as it was and saves nothing; on the second item it swaps the
\* first two positions and returns true; 'down' on the last item returns
\* false; in every case the items are the same and at most two neighbouring
\* positions have changed places
C19_MoveSwapsNeighbours ==
    last = "moveNavigationItem" =>
        /\ (args[2] = "up" /\ Target = 1) =>
                (NewItems = OldItems /\ ret = "false" /\ log = << >> /\ cur = before)
        /\ (args[2] = "up" /\ Target = 2) =>
                (NewItems = SwapAt(OldItems, 1, 2) /\ ret = "true")
        /\ (args[2] = "down" /\ Target = Len(OldItems) /\ Target # 0) =>
                (NewItems = OldItems /\ ret = "false" /\ log = << >> /\ cur = before)
        /\ \/ NewItems = OldItems
           \/ \E j \in 1..(Len(OldItems) - 1) : NewItems = SwapAt(OldItems, j, j + 1)

\* the second of at least three shortcuts has been moved up
C19_Witness ==
    /\ last = "moveNavigationItem"
    /\ args[2] = "up"
    /\ Target = 2
    /\ NewItems # OldItems
    /\ ret = "true"
    /\ Len(NewItems) >= 3

\* C20: deleteNavigationItem(id) removes the item with that id from
\* navigationItems and nothing else: the tool groups with their items, also
\* an entry with the same id, the layout, the search settings, the wallpaper
\* and the text colour are as before, and the remaining shortcuts keep their
\* order
C20_DeleteRemovesOnlyTheItem ==
    last = "deleteNavigationItem" =>
        /\ NewItems = SelectSeq(OldItems, LAMBDA it : it.id # args[1])
        /\ Len(NewItems) >= Len(OldItems) - 1
        /\ cur.toolGroups = before.toolGroups
        /\ cur.layout = before.layout
        /\ cur.search = before.search
        /\ cur.wallpaper = before.wallpaper
        /\ cur.textColor = before.textColor

\* a shortcut was deleted while a tool group holds an entry with its id
C20_Witness ==
    /\ last = "deleteNavigationItem"
    /\ Target # 0
    /\ ret = "true"
    /\ Len(NewItems) >= 1
    /\ \E g \in 1..Len(cur.toolGroups.v) :
            \E e \in 1..Len(cur.toolGroups.v[g].items) :
                cur.toolGroups.v[g].items[e].id = args[1]

\* C18: on the defaults, addNavigationItem({name: 'Test', url:
\* 'example.com'}) returns an item with the url 'https://example.com/' and
\* the id 3, one more than the largest id, or rejects the call and adds no
\* item; no shortcut ever holds the url 'example.com'
C18_ExampleUrlNormalised ==
    /\ (last = "addNavigationItem" /\ args = <<ExampleItem>>
            /\ OldItems = DefaultItems) =>
            \/ /\ ret = "item"
               /\ Len(NewItems) = 3
               /\ SubSeq(NewItems, 1, 2) = OldItems
               /\ NewItems[3].url = S_httpsExample
               /\ NewItems[3].id = Num(3)
            \/ ret # "item" /\ NewItems = OldItems
    /\ \A i \in 1..Len(NewItems) : NewItems[i].url # S_example

\* the write to localStorage threw, and so did the write of the catch
WriteFailedTwice ==
    \E i, j \in 1..Len(log) :
        i < j /\ log[i] = "QuotaExceededError" /\ log[j] = "QuotaExceededError"

\* C17: when the write to localStorage throws in saveSettings and throws
\* again in its catch, the mutator that saved (a navigation item mutator, a
\* tool group mutator, updateSearchSettings) reports failure to its caller
C17_FailedWriteReported ==
    (/\ last \in {"addNavigationItem", "updateNavigationItem",
                  "deleteNavigationItem", "moveNavigationItem",
                  "reorderNavigationItems", "addToolGroup", "updateToolGroup",
                  "deleteToolGroup", "addItemToToolGroup",
                  "removeItemFromToolGroup", "updateSearchSettings"}
     /\ WriteFailedTwice) => ret = "false"

\* the last turn received the file the user selected for an operation that
\* restoreStorage() began
RestoreTurn ==
    /\ last \in {"restoreFromBackup:picker", "ffOpen:picker", "lsRestore:change",
                  "idbRestore:change", "idbRestore:put"}
    /\ \E i \in 1..Len(args[2]) : args[2][i] = "restoreStorage"

\* the document of the selected file passes validateSettings
FileValidates == args[1].k = "json" /\ validateSettings(args[1].d)

\* C11: restoreStorage replaces the in-memory document only when the
\* document of the selected file passes validateSettings, and only then is
\* its result true; a file whose document does not validate leaves the
\* in-memory document as it was and the result is false
C11_RestoreOnlyValidFiles ==
    /\ last = "restoreStorage" => cur = before
    /\ (RestoreTurn /\ ~FileValidates) => (cur = before /\ ret = "false")
    /\ (RestoreTurn /\ cur # before) => FileValidates

\* C12: backupStorage leaves every field of the in-memory document as it
\* was, timestamp and checksum included, in the turn that starts it and in
\* the turn that settles it with true or false
C12_BackupLeavesDocument ==
    (\/ last = "backupStorage"
     \/ \E i \in 1..Len(log) : log[i] \in {"backupStorage:true", "backupStorage:false"})
        => cur = before

\* C13: the promise openStorage, saveStorage, backupStorage or
\* restoreStorage returned is pending or resolved with a boolean, never
\* rejected, also when document.createElement throws
C13_PromisesResolve ==
    last \in {"openStorage", "saveStorage", "backupStorage", "restoreStorage"}
        => ret \in {"pending", "true", "false"}

\* the call made in this step ran createStorageAdapter()
ConstructsAdapter ==
    /\ calls' = calls + 1
    /\ \E i \in 1..Len(log') : log'[i] = "createStorageAdapter"

\* C15: in a session of toggleFileStorage, selectStorageFile,
\* performManualBackup and restoreFromManualBackup, createStorageAdapter
\* runs only while no adapter has been constructed, so at most once
C15_OneAdapterPerSession == [][ConstructsAdapter => adapter = "none"]_vars

\* the text handed to importSettings does not parse to an object, or the
\* object fails validateSettings after the backfill of its missing fields
ImportRejects(data) ==
    \/ data.k # "json"
    \/ data.d.k # K_OK
    \/ ~validateSettings(Backfilled(M, data.d))

\* C29: importSettings of a text that does not parse, or whose document
\* fails validateSettings after the backfill, returns false and leaves the
\* in-memory document and the localStorage copy as they were
C29_RejectedImportChangesNothing ==
    [][(last' = "importSettings" /\ calls' = calls + 1 /\ ImportRejects(args'[1]))
          => (ret' = "false" /\ cur' = cur /\ ls' = ls /\ def' = def)]_vars

\* a file whose backfilled document does not validate was refused after the
\* document had been changed
C29_Witness ==
    /\ last = "importSettings"
    /\ args[1].k = "json" /\ args[1].d.k = K_OK
    /\ ~validateSettings(Backfilled(M, args[1].d))
    /\ args[1].d.layout.k = K_UNDEF
    /\ ret = "false"
    /\ cur # defaultSettings(1)
    /\ calls > 1

\* a well-formed item: a non-empty string name, a string url that parses
\* as an absolute URL, and, where present, a numeric id, a string icon and
\* a toolGroupId that is a number or null
WellFormedItem(it) ==
    /\ it.name[1] = T_STR /\ Len(it.name) > 1
    /\ it.url[1] = T_STR /\ ParsesAsURL(Tail(it.url))
    /\ it.id[1] \in {T_UNDEF, T_ABSENT, T_NUM, T_NAN}
    /\ it.icon[1] \in {T_UNDEF, T_ABSENT, T_STR}
    /\ it.toolGroupId[1] \in {T_UNDEF, T_ABSENT, T_NUM, T_NAN, T_NULL}

\* the ids that are present are pairwise distinct
DistinctIds(q) ==
    \A i, j \in 1..Len(q) :
        (i < j /\ q[i].id[1] \notin {T_UNDEF, T_ABSENT}) => q[i].id # q[j].id

\* C27: validateSettings(doc) is true exactly when doc is an object whose
\* navigationItems is an array of well-formed items with pairwise distinct
\* ids, whose layout and search are objects, and whose toolGroups, when
\* present, is an array
C27_ValidateIffWellFormed ==
    last = "validateSettings" =>
        ((ret = "true") <=>
            /\ args[1].k = K_OK
            /\ args[1].navigationItems.k = K_OK
            /\ \A i \in 1..Len(args[1].navigationItems.v) :
                    WellFormedItem(args[1].navigationItems.v[i])
            /\ DistinctIds(args[1].navigationItems.v)
            /\ args[1].layout.k = K_OK
            /\ args[1].search.k = K_OK
            /\ args[1].toolGroups.k \in {K_OK, K_UNDEF})

\* two well-formed items with the same id made the validator answer false
C27_Witness ==
    /\ last = "validateSettings"
    /\ ret = "false"
    /\ args[1].k = K_OK /\ args[1].layout.k = K_OK /\ args[1].search.k = K_OK
    /\ args[1].navigationItems.k = K_OK
    /\ Len(args[1].navigationItems.v) = 2
    /\ \A i \in 1..2 : WellFormedItem(args[1].navigationItems.v[i])

\* C28: a document that passes verifyChecksum and is then altered in what
\* it serializes to outside the checksum field fails verifyChecksum
C28_AlterationDetected ==
    (/\ last = "verifyChecksum"
     /\ verifyChecksum(args[1])
     /\ StringifyWithoutChecksum(args[2]) # StringifyWithoutChecksum(args[1]))
        => ret = "false"

\* the read transaction of IndexedDBAdapter.openStorage has completed
IdbOpened == last = "idbOpen:get" /\ args = <<TRUE>>

\* C22: IndexedDBAdapter.openStorage makes the Key-Value document the
\* in-memory document when the store holds no record, the record when it
\* holds one that passes validateSettings, and the defaults only when it
\* holds one that fails validation
C22_OpenFollowsStore ==
    IdbOpened =>
        /\ (idb = NoStore /\ LoadsStored(M)) => SameContent(cur, ls.d)
        /\ (idb.k = "json" /\ validateSettings(idb.d)) => SameContent(cur, idb.d)
        /\ alias.doc => \/ idb = NoStore /\ ~LoadsStored(M)
                        \/ idb.k = "json" /\ ~validateSettings(idb.d)

\* C23: without a file handle, saveStorage, backupStorage and
\* restoreStorage of the FileSystemAccessAdapter return false, open no
\* picker and leave the in-memory document and every stored copy as they
\* were
C23_NoHandleNoOp ==
    [][(/\ adapter = "fs" /\ ~fileHandle
        /\ calls' = calls + 1
        /\ last' \in {"saveStorage", "backupStorage", "restoreStorage"})
          => (/\ ret' = "false"
              /\ pending' = pending
              /\ cur' = cur /\ ls' = ls /\ file' = file /\ backup' = backup
              /\ idb' = idb /\ download' = download)]_vars

\* no operation is in progress: the last one has completed
Completed == pending = << >>

\* the timestamp a is not below the timestamp b
NotBelow(a, b) == b[1] = T_NUM => (a[1] = T_NUM /\ a[2] >= b[2])

\* C30: the clock never going back, the timestamp of the in-memory
\* document and that of the localStorage copy at the completion of an
\* operation are not below what they were at the completion of the
\* operation before
C30_TimestampNeverDecreases ==
    Completed =>
        /\ NotBelow(Timestamps[1], settled[1])
        /\ NotBelow(Timestamps[2], settled[2])

\* the operations of the storage adapter
AdapterOps == {"openStorage", "saveStorage", "backupStorage", "restoreStorage"}

\* the adapter operations in progress: the suspended operations with a
\* frame of an adapter method on their stack
Outstanding ==
    {i \in 1..Len(pending) :
        \E j \in 1..Len(pending[i].stack) : pending[i].stack[j] \in AdapterOps}

\* C25: at most one operation of the storage adapter is in progress
C25_OneOperationAtATime == Cardinality(Outstanding) <= 1

\* the awaits that end when the user closes a file picker
PickerAwaits ==
    FileInputAwaits \cup {"openStorageFile:picker", "restoreFromBackup:picker"}

\* an openStorage or restoreStorage call waits at a file picker it opened
PickerOpen ==
    \E i \in 1..Len(pending) :
        /\ Head(pending[i].stack) \in PickerAwaits
        /\ \E j \in 1..Len(pending[i].stack) :
               pending[i].stack[j] \in {"openStorage", "restoreStorage"}

\* C24: an openStorage or restoreStorage call that has opened a file
\* picker eventually resolves
C24_PickerCallsResolve == PickerOpen ~> (Outstanding = {})

\* C26: a mutation made while an adapter save or a restoreStorage is
\* suspended stays in the in-memory document and in the Key-Value copy
\* until the next call, and is in the richer backend's copy once the
\* outstanding operations have completed
C26_NoMutationLost ==
    mutated =>
        /\ cur.wallpaper = S_img
        /\ ls.k = "json" /\ ls.d.wallpaper = S_img
        /\ Completed => idb.k = "json" /\ idb.d.wallpaper = S_img

\* the flows that move a shortcut into a tool group
MoveFlows == {"moveIntoToolGroup", "createToolGroupFor", "mergeItemsIntoToolGroup"}

\* the shortcuts the last flow was given and found in navigationItems
Touched ==
    {id \in (IF last = "mergeItemsIntoToolGroup" THEN {args[1], args[2]}
             ELSE {args[1]}) :
        FindIndex(before.navigationItems.v, id) # 0}

InNavigationItems(id) == FindIndex(cur.navigationItems.v, id) # 0

InToolGroups(id) ==
    \E g \in 1..Len(cur.toolGroups.v) :
        FindIndex(cur.toolGroups.v[g].items, id) # 0

\* C21: when a flow that moves shortcuts into a tool group has finished,
\* every shortcut it touched is either in navigationItems or in the items
\* of a tool group, and not in both
C21_TouchedItemInOnePlace ==
    last \in MoveFlows =>
        \A id \in Touched : InNavigationItems(id) # InToolGroups(id)

\* C31: saveSettings() on a document that fails validateSettings returns
\* false, leaves the localStorage entry as it was and starts no save of the
\* adapter; what it writes to localStorage is the in-memory document, which
\* passes validateSettings
C31_SaveOnlyValidDocuments ==
    [][last' = "saveSettings" /\ calls' = calls + 1
         => /\ ~validateSettings(cur)
                 => /\ ret' = "false"
                    /\ ls' = ls
                    /\ pending' = pending
                    /\ \A i \in 1..Len(log') : log'[i] # "saveStorage"
            /\ ls' # ls
                 => /\ validateSettings(cur)
                    /\ validateSettings(cur')
                    /\ ls'.d = JsonRoundTrip(cur')]_vars

\* saveSettings() has returned false on an invalid document while an
\* adapter was installed and file storage enabled
C31_Witness ==
    /\ last = "saveSettings" /\ ret = "false"
    /\ ~validateSettings(cur)
    /\ enabled /\ adapter # "none"

-----------------------------------------------------------------------------
(* IndexedDBAdapter.initDB *)

\* the most indexedDB.open requests one adapter makes
MaxOpens == 3

\* the executor of initDB()'s promise: resolve(this.db) when the field is
\* set, else a new request of indexedDB.open whose events settle the promise
initDB(c) ==
    IF c.db # 0
    THEN [c EXCEPT !.got = @ \cup {c.db}]
    ELSE [c EXCEPT !.opens = @ + 1, !.waiting = @ \cup {c.opens + 1}]

\* request.onsuccess of the request r: the connection it opened, which no
\* other request opened, becomes this.db and goes to the caller
initDB_onsuccess(c, r) ==
    [c EXCEPT !.db = r, !.waiting = @ \ {r}, !.got = @ \cup {r}]

\* request.onerror of the request r: the caller's promise is rejected
initDB_onerror(c, r) == [c EXCEPT !.waiting = @ \ {r}]

\* a turn of the adapter's connection f, which touches nothing of the model
ConnectionTurn(f, a) ==
    /\ last' = f
    /\ args' = a
    /\ UNCHANGED <<now, probes, domOk, cur, def, alias, ls, enabled, adapter,
                   fileHandle, file, backup, idb, download, pending, log, ret,
                   calls, addedIds, before, untrusted, host, quota, settled,
                   mutated, menu>>

\* a caller, executeTransaction() of any adapter operation, calls initDB()
InitDB ==
    /\ adapter = "idb"
    /\ idbConn.opens < MaxOpens
    /\ idbConn' = initDB(idbConn)
    /\ ConnectionTurn("initDB", << >>)

OpenSuccess ==
    \E r \in idbConn.waiting :
        /\ idbConn' = initDB_onsuccess(idbConn, r)
        /\ ConnectionTurn("initDB:onsuccess", <<Num(r)>>)

OpenError ==
    \E r \in idbConn.waiting :
        /\ idbConn' = initDB_onerror(idbConn, r)
        /\ ConnectionTurn("initDB:onerror", <<Num(r)>>)

\* initFileStorage() in a page that has no adapter yet: the one
\* IndexedDBAdapter of the page load is constructed
InstallAdapter == adapter = "none" /\ InitFileStorage

NextConnection ==
    \/ Tick
    \/ Reload
    \/ InstallAdapter
    \/ IdbOpenGet
    \/ InitDB
    \/ OpenSuccess
    \/ OpenError

SpecConnection == InitIdb /\ [][NextConnection]_vars

\* C32: one adapter invokes indexedDB.open at most once, whatever the
\* number and the interleaving of the callers of initDB(), and every
\* caller receives the same connection
C32_OpenedOnce ==
    /\ idbConn.opens <= 1
    /\ Cardinality(idbConn.got) <= 1

-----------------------------------------------------------------------------
(* The icon context menu *)

\* the most times the context menu is shown in one page load
MaxShows == 3

\* showContextMenu(event, iconContextMenu) from the contextmenu listener of
\* the rendered item id: every entry is given one more click listener
showContextMenu(u, id) ==
    [u EXCEPT !.currentEditItemId = id, !.shown = TRUE,
              !.listeners = @ + 1,
              !.action = "none", !.handled = 0, !.confirms = 0]

\* handleContextMenuAction(action) with currentEditItemId = id; answer is
\* what confirm() returns
handleContextMenuAction(m, action, id, answer) ==
    IF id = Null THEN m
    ELSE IF action = "move-up" THEN moveNavigationItem(m, id, "up")
    ELSE IF action = "delete" /\ answer THEN deleteNavigationItem(m, id)
    ELSE m

\* the click listeners n, n - 1, .. 1 of one entry, run in the order they
\* were added
RECURSIVE Dispatch(_, _, _, _, _)
Dispatch(m, action, id, answers, n) ==
    IF n = 0 THEN m
    ELSE handleContextMenuAction(Dispatch(m, action, id, answers, n - 1),
                                 action, id, answers[n])

\* the user opens the context menu of a rendered shortcut
ShowContextMenu ==
    /\ menu.listeners < MaxShows
    /\ \E i \in 1..Len(cur.navigationItems.v) :
          /\ menu' = showContextMenu(menu, cur.navigationItems.v[i].id)
          /\ args' = <<cur.navigationItems.v[i].id>>
    /\ last' = "contextmenu"
    /\ UNCHANGED <<now, probes, domOk, cur, def, alias, ls, enabled, adapter,
                   fileHandle, file, backup, idb, download, pending, log, ret,
                   calls, addedIds, before, untrusted, host, quota, settled,
                   mutated, idbConn>>

\* one click on the entry 'move-up' or 'delete' of the menu shown
ClickMenuEntry ==
    /\ menu.shown
    /\ CalledWith("click", <<menu.currentEditItemId>>)
    /\ \E action \in {"move-up", "delete"},
          answers \in [1..MaxShows -> BOOLEAN] :
          /\ \E m \in {Dispatch(M, action, menu.currentEditItemId, answers,
                                menu.listeners)} :
                 CommitModel(m) /\ ret' = "undefined"
          /\ menu' = [menu EXCEPT
                          !.shown = FALSE,
                          !.action = action,
                          !.handled = menu.listeners,
                          !.confirms = IF action = "delete"
                                       THEN menu.listeners ELSE 0]
    /\ UNCHANGED <<addedIds, idbConn>>

NextMenu ==
    \/ Tick
    \/ AddNavigationItem
    \/ ShowContextMenu
    \/ ClickMenuEntry

SpecMenu == InitItems /\ [][NextMenu]_vars

\* the place of the shortcut the menu was opened on, before and after the
\* click
PlaceBefore == FindIndex(before.navigationItems.v, menu.currentEditItemId)
PlaceAfter == FindIndex(cur.navigationItems.v, menu.currentEditItemId)

\* C38: one click on a context-menu entry runs handleContextMenuAction
\* once, however often the menu was shown before: 'move-up' moves the
\* shortcut by exactly one place and 'delete' asks for confirmation once
C38_OneClickOneAction ==
    last = "click" =>
        /\ menu.handled = 1
        /\ menu.action = "move-up" /\ PlaceBefore > 1
               => PlaceAfter = PlaceBefore - 1
        /\ menu.action = "delete" => menu.confirms = 1

-----------------------------------------------------------------------------
(* The saves one mutator call causes *)

\* what the browser owes to the suspended operations of the IndexedDB,
\* Firefox and localStorage adapters
SaveSteps ==
    \/ FfOpenPicker
    \/ IdbOpenGet
    \/ IdbSavePut
    \/ IdbSaveComplete

NextSaves ==
    \/ Tick
    \/ InitFileStorage
    \/ SetWallpaper
    \/ SaveSteps

\* every event the browser owes is delivered
SpecSaves == InitSave /\ [][NextSaves]_vars /\ WF_vars(SaveSteps)

\* a mutator has been called with file storage enabled and one of the
\* three adapters installed
MutatorCalled ==
    /\ last = "setWallpaper"
    /\ enabled
    /\ adapter \in {"idb", "ff", "ls"}

\* no saveStorage() of the adapter is suspended
NoSavePending ==
    \A i \in 1..Len(pending) :
        \A j \in 1..Len(pending[i].stack) : pending[i].stack[j] # "saveStorage"

\* C33: after a mutator call made with file storage enabled and an
\* IndexedDB, Firefox or localStorage adapter installed, the saves it
\* causes come to an end: eventually no save is pending
C33_SavesEnd == MutatorCalled ~> NoSavePending

-----------------------------------------------------------------------------
(* resetToDefault *)

\* the fields resetToDefault() is to bring back
ResetFields ==
    {"navigationItems", "toolGroups", "layout", "search", "wallpaper",
     "textColor"}

\* C34: after resetToDefault() navigationItems, toolGroups, layout, search,
\* wallpaper and textColor have the values the constructor writes into
\* defaultSettings, whatever was mutated before, also in a page load that
\* began with no stored document
C34_ResetRestoresBuiltIns ==
    last = "resetToDefault" =>
        \A f \in ResetFields : cur[f] = defaultSettings(0)[f]

-----------------------------------------------------------------------------
(* What localStorage holds after a valid mutator call *)

\* the localStorage copy holds the field f as the in-memory document has it
Reflected(f) == ls.k = "json" /\ ls.d[f] = JsonRoundTrip(cur)[f]

\* the item addNavigationItem() has just pushed
Pushed == cur.navigationItems.v[Len(cur.navigationItems.v)]

\* C35: when a mutator whose own change is valid has returned, the
\* localStorage copy reflects the change, also after an earlier mutator
\* call was given invalid data
C35_ValidChangeStored ==
    /\ last = "setWallpaper" => Reflected("wallpaper")
    /\ last = "setTextColor" => Reflected("textColor")
    /\ last = "setSearchEngine" => Reflected("search")
    /\ last = "updateLayout" /\ IsNumber(cur.layout.columns)
           => Reflected("layout")
    /\ last = "addNavigationItem" /\ validateItem(Pushed)
           => Reflected("navigationItems")
    /\ last = "deleteNavigationItem" /\ ret = "true"
           => Reflected("navigationItems")

-----------------------------------------------------------------------------
(* initFileStorage and the result of openStorage *)

\* initFileStorage() on every browser, one call at a time, with what the
\* browser and the user do to the openStorage() it awaits
NextInit ==
    \/ Tick
    \/ Idle /\ InitFileStorage
    \/ OpenStorageFilePicker
    \/ LoadFromFileGetFile
    \/ SaveToFileCreateWritable
    \/ SaveToFileClose
    \/ BackupFilePicker
    \/ BackupFileCreateWritable
    \/ BackupFileClose
    \/ RestoreFromBackupPicker
    \/ FfOpenPicker
    \/ IdbOpenGet

SpecInit == Init /\ [][NextInit]_vars

\* the last turn ended an openStorage() of the adapter, which returned r
OpenStorageReturned(r) ==
    \E i \in 1..Len(log) :
        log[i] = IF r THEN "openStorage:true" ELSE "openStorage:false"

\* C36: initFileStorage() returns true and leaves isFileStorageEnabled true
\* only if openStorage() returned true; when openStorage() returns false it
\* returns false and isFileStorageEnabled is false afterwards
C36_InitFollowsOpen ==
    /\ ret = "true" => OpenStorageReturned(TRUE)
    /\ OpenStorageReturned(FALSE) => ret = "false" /\ ~enabled

-----------------------------------------------------------------------------
(* backupStorage followed by restoreStorage on the backup *)

\* the file backupStorage() of the installed adapter produces
Produced == IF adapter = "fs" THEN backup ELSE download

\* the step taken belongs to a restoreStorage() of the adapter
InRestore(stack) == \E j \in 1..Len(stack) : stack[j] = "restoreStorage"

\* the last turn ended a backupStorage() that returned true
BackedUp == \E i \in 1..Len(log) : log[i] = "backupStorage:true"

\* in a restoreStorage() the user chooses the file the backup produced
ChoosesProduced == InRestore(args'[2]) => args'[1] = Produced

\* initFileStorage(), backupStorage() and, right after a backup was
\* produced, restoreStorage() on that backup; one call at a time
NextBackup ==
    \/ Tick
    \/ pending = << >> /\ InitFileStorage
    \/ pending = << >> /\ AdapterBackupStorage
    \/ pending = << >> /\ BackedUp /\ AdapterRestoreStorage
    \/ OpenStorageFilePicker
    \/ LoadFromFileGetFile
    \/ SaveToFileCreateWritable
    \/ SaveToFileClose
    \/ BackupFilePicker
    \/ BackupFileCreateWritable
    \/ BackupFileClose
    \/ IdbOpenGet
    \/ IdbBackupGet
    \/ IdbSavePut
    \/ IdbSaveComplete
    \/ RestoreFromBackupPicker /\ ChoosesProduced
    \/ FfOpenPicker /\ ChoosesProduced
    \/ LsRestoreChange /\ ChoosesProduced
    \/ IdbRestoreChange /\ ChoosesProduced

SpecBackup == Init /\ [][NextBackup]_vars

\* the user has just chosen the backup in a restoreStorage() made on a
\* valid in-memory document
BackupChosen ==
    /\ last \in {"restoreFromBackup:picker", "ffOpen:picker",
                 "lsRestore:change", "idbRestore:change"}
    /\ InRestore(args[2])
    /\ args[1].k = "json"
    /\ validateSettings(before)

RestoreReturned(r) ==
    \E i \in 1..Len(log) :
        log[i] = IF r THEN "restoreStorage:true" ELSE "restoreStorage:false"

\* C37: restoreStorage() applied to the file the same adapter's
\* backupStorage() has just produced from the valid in-memory document d
\* returns true and leaves a document equal to d but for timestamp and
\* checksum
C37_BackupRestores ==
    /\ BackupChosen =>
          SameContent(JsonRoundTrip(cur), JsonRoundTrip(before))
    /\ validateSettings(before) => ~RestoreReturned(FALSE)

-----------------------------------------------------------------------------
(* openStorageFile on a file whose checksum does not verify *)

OnStack(stack, f) == \E j \in 1..Len(stack) : stack[j] = f

\* the file chosen in openStorageFile() failed verifyChecksum and the
\* restoreFromBackup() that loadFromFile() fell back to has just restored
\* nothing
FailedOpen ==
    /\ last = "restoreFromBackup:picker"
    /\ OnStack(args[2], "openStorageFile:afterLoad")
    /\ ~(args[1].k = "json" /\ verifyChecksum(args[1].d))

\* the stream of the saveToFile() that openStorageFile() makes after a
\* failed load is about to be closed over the chosen file, which still
\* holds the content that failed verifyChecksum
WritesChosenFile ==
    /\ file.k = "json" /\ ~verifyChecksum(file.d)
    /\ \E i \in 1..Len(pending) :
          /\ Head(pending[i].stack) = "saveToFile:close"
          /\ OnStack(pending[i].stack, "openStorageFile:afterSave")

\* C39: when the file chosen in openStorageFile() fails checksum
\* verification and no backup is restored, openStorageFile() returns false
\* and nothing is written to the chosen file
C39_FailedOpenWritesNothing ==
    [][/\ FailedOpen' => ret' = "false" /\ pending' = << >>
       /\ WritesChosenFile /\ last' = "saveToFile:close" => file' = file]_vars

=============================================================================
